---- MODULE Spec2Model ----
(***************************************************************************)
(* A model of the "threads" record store (python/src/threads): the record  *)
(* codec (storage.py), the atomic save, the reference resolver and the     *)
(* scope resolver (workspace.py) and the directory search (storage.py).    *)
(*                                                                         *)
(* Strings are sequences of one-character strings; a text (a Python str    *)
(* that may hold newlines) is the non-empty sequence of its lines, that    *)
(* is, the value of str.split("\n").                                       *)
(***************************************************************************)
EXTENDS Integers, Sequences, FiniteSets, TLC

VARIABLES
    \* record codec: a record, its serialized text, the record decoded from it
    rec, text, decoded, cpc,
    \* saving: the files of one .threads directory, and per process its
    \* position, the record it holds, the lines it has written, and the
    \* process whose rename came last
    disk, pc, thread, written, lastRename,
    \* reference resolution: the record files find_threads returned (most
    \* recently modified first), the reference, and the outcome
    threads, ref, result,
    \* the directory tree: the directories (absolute paths, a path being the
    \* sequence of its names), those holding a .git directory, those holding
    \* a .threads directory, and the entries of the .threads directories
    dirs, gitDirs, threadsDirs, files,
    \* the paths that cannot be read (no read permission), and the order in
    \* which the file system lists the entries of a directory
    noRead, listing,
    \* scope resolution: the working directory, the path expression, the outcome
    pwd, pathArg, scope,
    \* search: the start directory, the FindOptions, the list returned, and
    \* the order in which this process iterates over a set of paths
    start, options, found, hashSeed,
    \* commands: the text of each record file, what each record was created
    \* as, the number of commands run, and the outcome of the last one
    store, born, clock, last,
    \* git: the content of each path in the last commit, in the index and
    \* in the working tree (0: no such file), the status map cached by this
    \* process, and what the last operation answered
    head, index, work, _status_cache, answer

codecVars == <<rec, text, decoded, cpc>>
saveVars == <<disk, pc, thread, written, lastRename>>
refVars == <<threads, ref, result>>
fsVars == <<dirs, gitDirs, threadsDirs, files, noRead, listing>>
scopeVars == <<pwd, pathArg, scope>>
findVars == <<start, options, found, hashSeed>>
cmdVars == <<store, born, clock, last>>
gitVars == <<head, index, work, _status_cache, answer>>
vars == <<rec, text, decoded, cpc, disk, pc, thread, written, lastRename,
          threads, ref, result, dirs, gitDirs, threadsDirs, files,
          noRead, listing, pwd, pathArg, scope, start, options, found, hashSeed,
          store, born, clock, last, head, index, work, _status_cache, answer>>

\* the variables of a part of the program that a specification does not run
CodecIdle == rec = <<>> /\ text = <<>> /\ decoded = <<>> /\ cpc = "off"
SaveIdle == disk = <<>> /\ pc = <<>> /\ thread = <<>> /\ written = <<>> /\ lastRename = "none"
RefIdle == threads = <<>> /\ ref = <<>> /\ result = <<>>
FsIdle ==
    /\ dirs = {} /\ gitDirs = {} /\ threadsDirs = {} /\ files = <<>>
    /\ noRead = {} /\ listing = "off"
ScopeIdle == pwd = <<>> /\ pathArg = <<>> /\ scope = <<>>
FindIdle ==
    /\ start = <<>> /\ options = <<>> /\ found = [state |-> "off", list |-> <<>>]
    /\ hashSeed = "off"
CmdIdle == store = <<>> /\ born = <<>> /\ clock = 0 /\ last = <<>>
GitIdle ==
    /\ head = <<>> /\ index = <<>> /\ work = <<>>
    /\ _status_cache = <<>> /\ answer = <<>>

(***************************************************************************)
(* Characters and strings                                                  *)
(***************************************************************************)
Digits == {"0", "1", "2", "3", "4", "5", "6", "7", "8", "9"}
HexLower == Digits \cup {"a", "b", "c", "d", "e", "f"}
Lower == {"a", "b", "c", "d", "e", "f", "g", "h", "i", "j", "k", "l", "m",
          "n", "o", "p", "q", "r", "s", "t", "u", "v", "w", "x", "y", "z"}
Upper == {"A", "B", "C", "D", "E", "F", "G", "H", "I", "J", "K", "L", "M",
          "N", "O", "P", "Q", "R", "S", "T", "U", "V", "W", "X", "Y", "Z"}
\* \w of the re module, \s within one line
WordChars == Lower \cup Upper \cup Digits \cup {"_"}
WS == {" ", "\t"}

EmptyStr == <<>>
\* the text "" : one empty line
EmptyText == <<EmptyStr>>

StartsWith(s, p) == Len(s) >= Len(p) /\ SubSeq(s, 1, Len(p)) = p
EndsWith(s, p) == Len(s) >= Len(p) /\ SubSeq(s, Len(s) - Len(p) + 1, Len(s)) = p
AllIn(s, S) == \A i \in 1..Len(s) : s[i] \in S
Drop(s, n) == SubSeq(s, n + 1, Len(s))

\* index of the first / last character outside WS, 0 when there is none
FirstNonWs(s) ==
    IF \E i \in 1..Len(s) : s[i] \notin WS
    THEN CHOOSE i \in 1..Len(s) : s[i] \notin WS /\ \A j \in 1..(i-1) : s[j] \in WS
    ELSE 0
LastNonWs(s) ==
    IF \E i \in 1..Len(s) : s[i] \notin WS
    THEN CHOOSE i \in 1..Len(s) : s[i] \notin WS /\ \A j \in (i+1)..Len(s) : s[j] \in WS
    ELSE 0
\* str.rstrip() and str.strip() of a string without newlines
RStripLine(s) == SubSeq(s, 1, LastNonWs(s))
StripLine(s) == IF FirstNonWs(s) = 0 THEN <<>> ELSE SubSeq(s, FirstNonWs(s), LastNonWs(s))

\* str.strip() of a text: leading and trailing whitespace, newlines included
FirstInk(t) ==
    IF \E i \in 1..Len(t) : FirstNonWs(t[i]) # 0
    THEN CHOOSE i \in 1..Len(t) : FirstNonWs(t[i]) # 0 /\ \A j \in 1..(i-1) : FirstNonWs(t[j]) = 0
    ELSE 0
LastInk(t) ==
    IF \E i \in 1..Len(t) : FirstNonWs(t[i]) # 0
    THEN CHOOSE i \in 1..Len(t) : FirstNonWs(t[i]) # 0 /\ \A j \in (i+1)..Len(t) : FirstNonWs(t[j]) = 0
    ELSE 0
StripText(t) ==
    IF FirstInk(t) = 0 THEN EmptyText
    ELSE LET a == FirstInk(t)
             b == LastInk(t)
         IN  IF a = b THEN <<StripLine(t[a])>>
             ELSE <<Drop(t[a], FirstNonWs(t[a]) - 1)>>
                  \o SubSeq(t, a + 1, b - 1)
                  \o <<RStripLine(t[b])>>

\* "\n".join(parts) for a non-empty list of texts
RECURSIVE JoinLines(_)
JoinLines(parts) ==
    IF Len(parts) = 0 THEN <<>> ELSE Head(parts) \o JoinLines(Tail(parts))

\* the elements of a finite set of integers in ascending order
RECURSIVE Ascending(_)
Ascending(S) ==
    IF S = {} THEN <<>>
    ELSE LET m == CHOOSE x \in S : \A y \in S : x <= y
         IN  <<m>> \o Ascending(S \ {m})

(***************************************************************************)
(* The section grammar (storage.py, lines 54-67)                           *)
(***************************************************************************)
sH2 == <<"#", "#", " ">>
sH3 == <<"#", "#", "#", " ">>
sDash == <<"-", " ">>
sOpen == <<"<", "!", "-", "-">>
sClose == <<"-", "-", ">">>
sBold == <<"*", "*">>
sBody == <<"B", "o", "d", "y">>
sNotes == <<"N", "o", "t", "e", "s">>
sTodo == <<"T", "o", "d", "o">>
sLog == <<"L", "o", "g">>

\* SECTION_RE = ^## (\w+)\s*$ : a heading line and the name it captures
SECTION_RE(line) ==
    /\ StartsWith(line, sH2)
    /\ LET r == RStripLine(Drop(line, 3)) IN Len(r) >= 1 /\ AllIn(r, WordChars)
SectionName(line) == RStripLine(Drop(line, 3))

\* the tail <!--\s*([a-f0-9]{4})\s*-->$ shared by NOTE_RE and TODO_RE
HashTail(s) ==
    /\ StartsWith(s, sOpen)
    /\ EndsWith(s, sClose)
    /\ Len(s) >= 7
    /\ LET h == StripLine(SubSeq(s, 5, Len(s) - 3)) IN Len(h) = 4 /\ AllIn(h, HexLower)
HashOf(s) == StripLine(SubSeq(s, 5, Len(s) - 3))

\* (.+?)\s*<tail> : the positions at which the tail can start, after at least
\* one character of text
TailStarts(s) == {k \in 2..Len(s) : HashTail(Drop(s, k - 1))}
\* the lazy group: the shortest non-empty text followed by whitespace only
LazyText(mid) == IF LastNonWs(mid) = 0 THEN SubSeq(mid, 1, 1) ELSE RStripLine(mid)

\* NOTE_RE = ^- (.+?)\s*<!--\s*([a-f0-9]{4})\s*-->$
NOTE_RE(line) == StartsWith(line, sDash) /\ TailStarts(Drop(line, 2)) # {}
NoteOf(line) ==
    LET s == Drop(line, 2)
        k == CHOOSE k \in TailStarts(s) : TRUE
    IN  [text |-> LazyText(SubSeq(s, 1, k - 1)), hash |-> HashOf(Drop(s, k - 1))]

\* TODO_RE = ^- \[([ x])\] (.+?)\s*<!--\s*([a-f0-9]{4})\s*-->$
TODO_RE(line) ==
    /\ Len(line) >= 6
    /\ SubSeq(line, 1, 3) = <<"-", " ", "[">>
    /\ line[4] \in {" ", "x"}
    /\ SubSeq(line, 5, 6) = <<"]", " ">>
    /\ TailStarts(Drop(line, 6)) # {}
TodoOf(line) ==
    LET s == Drop(line, 6)
        k == CHOOSE k \in TailStarts(s) : TRUE
    IN  [text |-> LazyText(SubSeq(s, 1, k - 1)), hash |-> HashOf(Drop(s, k - 1)),
         checked |-> line[4] = "x"]

\* LOG_DATE_RE = ^### (\d{4}-\d{2}-\d{2})\s*$
IsDate(d) ==
    /\ Len(d) = 10
    /\ d[5] = "-" /\ d[8] = "-"
    /\ \A i \in {1, 2, 3, 4, 6, 7, 9, 10} : d[i] \in Digits
LOG_DATE_RE(line) == StartsWith(line, sH3) /\ IsDate(RStripLine(Drop(line, 4)))
DateOf(line) == RStripLine(Drop(line, 4))

\* LOG_ENTRY_RE = ^- \*\*(\d{2}:\d{2})\*\* (.+)$
IsTime(t) == Len(t) = 5 /\ t[3] = ":" /\ \A i \in {1, 2, 4, 5} : t[i] \in Digits
LOG_ENTRY_RE(line) ==
    /\ Len(line) >= 13
    /\ SubSeq(line, 1, 4) = sDash \o sBold
    /\ IsTime(SubSeq(line, 5, 9))
    /\ SubSeq(line, 10, 12) = sBold \o <<" ">>
EntryOf(line) == [time |-> SubSeq(line, 5, 9), text |-> Drop(line, 12)]

(***************************************************************************)
(* Decoding (storage.py, lines 70-155)                                     *)
(***************************************************************************)
HeadingIdx(content) == {i \in 1..Len(content) : SECTION_RE(content[i])}

\* parse_sections: the names found, and the content of a name (the last
\* heading of that name wins, as the dict assignment overwrites)
SectionNames(content) == {SectionName(content[i]) : i \in HeadingIdx(content)}
SectionContent(content, name) ==
    LET H == HeadingIdx(content)
        i == CHOOSE i \in H : /\ SectionName(content[i]) = name
                              /\ \A j \in H : SectionName(content[j]) = name => j <= i
        later == {j \in H : j > i}
        stop == IF later = {} THEN Len(content) + 1
                ELSE CHOOSE j \in later : \A k \in later : j <= k
    IN  StripText(<<EmptyStr>> \o SubSeq(content, i + 1, stop - 1)
                  \o (IF later = {} THEN <<>> ELSE <<EmptyStr>>))
parse_sections(content) ==
    [name \in SectionNames(content) |-> SectionContent(content, name)]

\* sections.get(name, "")
SectionGet(sections, name) ==
    IF name \in DOMAIN sections THEN sections[name] ELSE EmptyText

StrictNotes(t) ==
    LET ls == [i \in 1..Len(t) |-> StripLine(t[i])]
    IN  IF \A i \in 1..Len(ls) : ls[i] = EmptyStr \/ NOTE_RE(ls[i])
        THEN [i \in 1..Len(SelectSeq(ls, NOTE_RE)) |-> NoteOf(SelectSeq(ls, NOTE_RE)[i])]
        ELSE <<>>
parse_notes(t) ==
    LET ls == [i \in 1..Len(t) |-> StripLine(t[i])]
        ok == SelectSeq(ls, NOTE_RE)
    IN  [i \in 1..Len(ok) |-> NoteOf(ok[i])]

parse_todos(t) ==
    LET ls == [i \in 1..Len(t) |-> StripLine(t[i])]
        ok == SelectSeq(ls, TODO_RE)
    IN  [i \in 1..Len(ok) |-> TodoOf(ok[i])]

\* parse_log: current_date is the date of the last date heading above a line
parse_log(t) ==
    LET ls == [i \in 1..Len(t) |-> RStripLine(t[i])]
        DateIdx == {i \in 1..Len(t) : LOG_DATE_RE(ls[i])}
        CurIdx(i) == IF \E j \in DateIdx : j < i
                     THEN CHOOSE j \in DateIdx : j < i /\ \A k \in DateIdx : k < i => k <= j
                     ELSE 0
        EntryIdx(d) == {i \in 1..Len(t) : /\ i \notin DateIdx
                                          /\ LOG_ENTRY_RE(ls[i])
                                          /\ CurIdx(i) # 0
                                          /\ DateOf(ls[CurIdx(i)]) = d}
    IN  [d \in {DateOf(ls[i]) : i \in DateIdx} |->
            LET idx == Ascending(EntryIdx(d))
            IN  [n \in 1..Len(idx) |-> EntryOf(ls[idx[n]])]]

(***************************************************************************)
(* Encoding (storage.py, lines 158-237)                                    *)
(***************************************************************************)
serialize_notes(notes) ==
    IF Len(notes) = 0 THEN EmptyText
    ELSE [i \in 1..Len(notes) |->
            sDash \o notes[i].text \o <<" ", " ">> \o sOpen \o <<" ">>
                  \o notes[i].hash \o <<" ">> \o sClose]

serialize_todos(todos) ==
    IF Len(todos) = 0 THEN EmptyText
    ELSE [i \in 1..Len(todos) |->
            <<"-", " ", "[", (IF todos[i].checked THEN "x" ELSE " "), "]", " ">>
                  \o todos[i].text \o <<" ", " ">> \o sOpen \o <<" ">>
                  \o todos[i].hash \o <<" ">> \o sClose]

\* code points of the characters of a date, for Python's string ordering
CharCode(c) ==
    CASE c = "-" -> 45
      [] c = "0" -> 48 [] c = "1" -> 49 [] c = "2" -> 50 [] c = "3" -> 51
      [] c = "4" -> 52 [] c = "5" -> 53 [] c = "6" -> 54 [] c = "7" -> 55
      [] c = "8" -> 56 [] c = "9" -> 57
StrLess(a, b) ==
    \E i \in 1..Len(b) :
        /\ \A j \in 1..(i-1) : j <= Len(a) /\ a[j] = b[j]
        /\ (i > Len(a) \/ CharCode(a[i]) < CharCode(b[i]))

\* sorted(log.keys(), reverse=True)
RECURSIVE SortedDesc(_)
SortedDesc(S) ==
    IF S = {} THEN <<>>
    ELSE LET m == CHOOSE x \in S : \A y \in S \ {x} : StrLess(y, x)
         IN  <<m>> \o SortedDesc(S \ {m})

LogDateLines(log, d) ==
    <<sH3 \o d, EmptyStr>>
    \o [i \in 1..Len(log[d]) |->
            sDash \o sBold \o log[d][i].time \o sBold \o <<" ">> \o log[d][i].text]

serialize_log(log) ==
    IF DOMAIN log = {} THEN EmptyText
    ELSE LET ds == SortedDesc(DOMAIN log)
         IN  JoinLines([i \in 1..Len(ds) |-> LogDateLines(log, ds[i])])

\* the sections list of serialize_thread joined with "\n"
SectionsText(th) ==
    JoinLines(
        <<<<sH2 \o sBody>>, EmptyText>>
        \o (IF th.body # EmptyText THEN <<th.body, EmptyText>> ELSE <<>>)
        \o (IF Len(th.notes) > 0
            THEN <<<<sH2 \o sNotes>>, EmptyText, serialize_notes(th.notes), EmptyText>>
            ELSE <<>>)
        \o <<<<sH2 \o sTodo>>, EmptyText>>
        \o (IF Len(th.todos) > 0
            THEN <<serialize_todos(th.todos), EmptyText>>
            ELSE <<>>)
        \o <<<<sH2 \o sLog>>, EmptyText>>
        \o (IF DOMAIN th.log # {} THEN <<serialize_log(th.log)>> ELSE <<>>))

(***************************************************************************)
(* The metadata header.  frontmatter.Post / dumps / load are library calls *)
(* (storage.py, lines 137 and 236-237): a fenced block of "key: value"     *)
(* lines, a blank line, the content; YAML's quoting of a scalar is not     *)
(* modelled, a value is the characters after "key: ".                      *)
(***************************************************************************)
sFence == <<"-", "-", "-">>
kId == <<"i", "d">>
kName == <<"n", "a", "m", "e">>
kTitle == <<"t", "i", "t", "l", "e">>
kDesc == <<"d", "e", "s", "c">>
kStatus == <<"s", "t", "a", "t", "u", "s">>
sIdea == <<"i", "d", "e", "a">>

HeaderLine(key, value) == key \o <<":", " ">> \o value

FmDumps(metadata, content) ==
    StripText(<<sFence,
                HeaderLine(kDesc, metadata.desc),
                HeaderLine(kId, metadata.id),
                HeaderLine(kName, metadata.name),
                HeaderLine(kStatus, metadata.status),
                sFence,
                EmptyStr>> \o content \o <<EmptyStr>>)

\* position of the ": " that ends the key of a header line, 0 when none
KeyEnd(line) ==
    LET C == {i \in 1..(Len(line) - 1) : line[i] = ":" /\ line[i + 1] = " "}
    IN  IF C = {} THEN 0 ELSE CHOOSE i \in C : \A j \in C : i <= j

\* frontmatter.load: the metadata and the stripped content
FmFences(t) == {i \in 2..Len(t) : RStripLine(t[i]) = sFence}
FmHasHeader(t) == Len(t) >= 1 /\ RStripLine(t[1]) = sFence /\ FmFences(t) # {}
FmClose(t) == CHOOSE i \in FmFences(t) : \A j \in FmFences(t) : i <= j
FmMetadata(t) ==
    IF ~FmHasHeader(t) THEN <<>>
    ELSE LET L == {i \in 2..(FmClose(t) - 1) : KeyEnd(t[i]) # 0}
             Keys == {SubSeq(t[i], 1, KeyEnd(t[i]) - 1) : i \in L}
         IN  [k \in Keys |->
                LET i == CHOOSE i \in L : /\ SubSeq(t[i], 1, KeyEnd(t[i]) - 1) = k
                                          /\ \A j \in L : SubSeq(t[j], 1, KeyEnd(t[j]) - 1) = k => j <= i
                IN  Drop(t[i], KeyEnd(t[i]) + 1)]
FmContent(t) ==
    IF ~FmHasHeader(t) THEN StripText(t)
    ELSE StripText(Drop(t, FmClose(t)) \o <<EmptyStr>>)

\* post.get(key, default)
PostGet(metadata, key, default) ==
    IF key \in DOMAIN metadata THEN metadata[key] ELSE default

serialize_thread(th) ==
    FmDumps([id |-> th.id, name |-> th.name,
             desc |-> th.desc, status |-> th.status],
            SectionsText(th))

\* load_thread, from the text of the file
load_thread(t) ==
    LET metadata == FmMetadata(t)
        sections == parse_sections(FmContent(t))
    IN  [id |-> PostGet(metadata, kId, EmptyStr),
         name |-> PostGet(metadata, kName, PostGet(metadata, kTitle, EmptyStr)),
         desc |-> PostGet(metadata, kDesc, EmptyStr),
         status |-> PostGet(metadata, kStatus, sIdea),
         body |-> SectionGet(sections, sBody),
         notes |-> parse_notes(SectionGet(sections, sNotes)),
         todos |-> parse_todos(SectionGet(sections, sTodo)),
         log |-> parse_log(SectionGet(sections, sLog))]

(***************************************************************************)
(* Records the codec is applied to                                         *)
(***************************************************************************)
MaxNotes == 2
MaxEntries == 2

\* the sequences without repetition over S of length at most n
InjSeqs(S, n) ==
    UNION {{s \in [1..k -> S] : \A i, j \in 1..k : i # j => s[i] # s[j]} : k \in 0..n}

IdA == <<"a", "1", "b", "2", "c", "3">>
NameA == <<"F", "i", "x">>
Statuses == {sIdea, <<"b", "l", "o", "c", "k", "e", "d", " ", "(", "x", ")">>}
Bodies == {EmptyText,
           <<<<"a", "b">>>>,
           <<<<"a">>, EmptyStr, <<"b">>>>,
           <<sH2 \o sTodo>>}
NotePool == {[text |-> <<"n">>, hash |-> <<"a", "1", "b", "2">>],
             [text |-> <<"m", " ", "m">>, hash |-> <<"0", "f", "0", "f">>]}
TodoPool == {[text |-> <<"t">>, hash |-> <<"c", "3", "d", "4">>, checked |-> FALSE],
             [text |-> <<"u">>, hash |-> <<"0", "0", "f", "f">>, checked |-> TRUE]}
Dates == {<<"2", "0", "2", "4", "-", "0", "1", "-", "0", "2">>,
          <<"2", "0", "2", "4", "-", "0", "1", "-", "1", "0">>}
EntryPool == {[time |-> <<"0", "9", ":", "0", "5">>, text |-> <<"x">>],
              [time |-> <<"1", "0", ":", "0", "0">>, text |-> <<"y", " ", "z">>]}
Logs == UNION {[D -> InjSeqs(EntryPool, MaxEntries)] : D \in SUBSET Dates}

Records ==
    [id : {IdA}, name : {NameA}, desc : {EmptyStr}, status : Statuses,
     body : Bodies, notes : InjSeqs(NotePool, MaxNotes),
     todos : InjSeqs(TodoPool, MaxNotes), log : Logs]

(***************************************************************************)
(* SpecCodec: serialize_thread, then load_thread of the text it produced   *)
(***************************************************************************)
InitCodec ==
    /\ rec \in Records
    /\ text = <<>>
    /\ decoded = <<>>
    /\ cpc = "new"
    /\ SaveIdle /\ RefIdle /\ FsIdle /\ ScopeIdle /\ FindIdle /\ CmdIdle /\ GitIdle

Serialize ==
    /\ cpc = "new"
    /\ text' = serialize_thread(rec)
    /\ cpc' = "encoded"
    /\ UNCHANGED <<rec, decoded>>
    /\ UNCHANGED <<saveVars, refVars, fsVars, scopeVars, findVars, cmdVars, gitVars>>

Load ==
    /\ cpc = "encoded"
    /\ decoded' = load_thread(text)
    /\ cpc' = "decoded"
    /\ UNCHANGED <<rec, text>>
    /\ UNCHANGED <<saveVars, refVars, fsVars, scopeVars, findVars, cmdVars, gitVars>>

NextCodec == Serialize \/ Load

SpecCodec == InitCodec /\ [][NextCodec]_vars

\* C2: for every record of the data model, load_thread of serialize_thread(r)
\* is r, field by field
C2_RoundTrip == cpc = "decoded" => decoded = rec

\* the same, for a single field
RoundTripField(f) == cpc = "decoded" => decoded[f] = rec[f]
C2_HeaderRoundTrip ==
    /\ RoundTripField("id") /\ RoundTripField("name")
    /\ RoundTripField("desc") /\ RoundTripField("status")
C2_ListsRoundTrip ==
    (cpc = "decoded" /\ ~(\E i \in 1..Len(rec.body) : SECTION_RE(rec.body[i])))
        => decoded = rec

(***************************************************************************)
(* SpecSave: two processes, each running a command that loads the record   *)
(* of one file, modifies it and saves it (cmd_status, cmd_update), with    *)
(* save_thread taken one system call at a time (storage.py, lines 240-259) *)
(***************************************************************************)
Procs == {"p1", "p2"}
Target == <<"target">>

\* NamedTemporaryFile(dir=dir_path, delete=False, suffix=".tmp"): a fresh
\* name in the directory of the target, one per call
TempInPlace(q) == Target
TempFixedName(q) == <<"tmp">>
TempPath(q) == <<"tmp", q>>

Paths == {Target} \cup {TempPath(q) : q \in Procs}
NoFile == [exists |-> FALSE, data |-> <<>>]
File(lines) == [exists |-> TRUE, data |-> lines]

Record0 ==
    [id |-> IdA, name |-> NameA, desc |-> EmptyStr, status |-> sIdea,
     body |-> <<<<"a", "b">>>>, notes |-> <<>>, todos |-> <<>>, log |-> <<>>]
Text0 == serialize_thread(Record0)

sActive == <<"a", "c", "t", "i", "v", "e">>
\* the modification of a command: p1 runs cmd_status(ref, "active"),
\* p2 runs cmd_update(ref, desc="d")
Modify(q, th) ==
    IF q = "p1" THEN [th EXCEPT !.status = sActive]
    ELSE [th EXCEPT !.desc = <<"d">>]

InitSave ==
    /\ disk = [p \in Paths |-> IF p = Target THEN File(Text0) ELSE NoFile]
    /\ pc = [q \in Procs |-> "start"]
    /\ thread = [q \in Procs |-> Record0]
    /\ written = [q \in Procs |-> 0]
    /\ lastRename = "none"
    /\ CodecIdle /\ RefIdle /\ FsIdle /\ ScopeIdle /\ FindIdle /\ CmdIdle /\ GitIdle

\* thread = load_thread(file_path), then the assignment to a field
LoadModify(q) ==
    /\ pc[q] = "start"
    /\ disk[Target].exists
    /\ thread' = [thread EXCEPT ![q] = Modify(q, load_thread(disk[Target].data))]
    /\ pc' = [pc EXCEPT ![q] = "loaded"]
    /\ UNCHANGED <<disk, written, lastRename>>

\* content = serialize_thread(thread); the temporary file is created empty
OpenTemp(q) ==
    /\ pc[q] = "loaded"
    /\ disk' = [disk EXCEPT ![TempPath(q)] = File(<<>>)]
    /\ written' = [written EXCEPT ![q] = 0]
    /\ pc' = [pc EXCEPT ![q] = "writing"]
    /\ UNCHANGED <<thread, lastRename>>

\* data with chunk written at offset off (a hole is left as empty lines)
WriteAt(data, off, chunk) ==
    LET n == IF Len(data) > off + Len(chunk) THEN Len(data) ELSE off + Len(chunk)
    IN  [i \in 1..n |->
            IF i > off /\ i <= off + Len(chunk) THEN chunk[i - off]
            ELSE IF i <= Len(data) THEN data[i] ELSE EmptyStr]

\* f.write(content) reaches the file in one or more pieces
Write(q) ==
    /\ pc[q] = "writing"
    /\ disk[TempPath(q)].exists
    /\ LET content == serialize_thread(thread[q])
       IN  /\ written[q] < Len(content)
           /\ \E k \in (written[q] + 1)..Len(content) :
                /\ disk' = [disk EXCEPT ![TempPath(q)] =
                              File(WriteAt(disk[TempPath(q)].data, written[q],
                                           SubSeq(content, written[q] + 1, k)))]
                /\ written' = [written EXCEPT ![q] = k]
    /\ UNCHANGED <<pc, thread, lastRename>>

\* os.rename(temp_path, thread.file_path) once the file is written and closed
Rename(q) ==
    /\ pc[q] = "writing"
    /\ written[q] = Len(serialize_thread(thread[q]))
    /\ disk[TempPath(q)].exists
    /\ disk' = [p \in Paths |->
                  IF p = Target THEN disk[TempPath(q)]
                  ELSE IF p = TempPath(q) THEN NoFile
                  ELSE disk[p]]
    /\ pc' = [pc EXCEPT ![q] = "done"]
    /\ lastRename' = q
    /\ UNCHANGED <<thread, written>>

\* the write raises (disk full): save_thread fails, the temporary file stays
WriteFails(q) ==
    /\ pc[q] = "writing"
    /\ written[q] < Len(serialize_thread(thread[q]))
    /\ pc' = [pc EXCEPT ![q] = "failed"]
    /\ UNCHANGED <<disk, thread, written, lastRename>>

\* the process dies at any step
Crash(q) ==
    /\ pc[q] \in {"loaded", "writing"}
    /\ pc' = [pc EXCEPT ![q] = "crashed"]
    /\ UNCHANGED <<disk, thread, written, lastRename>>

NextSave ==
    \E q \in Procs :
        \/ (LoadModify(q) /\ UNCHANGED <<codecVars, refVars, fsVars, scopeVars, findVars, cmdVars, gitVars>>)
        \/ (OpenTemp(q) /\ UNCHANGED <<codecVars, refVars, fsVars, scopeVars, findVars, cmdVars, gitVars>>)
        \/ (Write(q) /\ UNCHANGED <<codecVars, refVars, fsVars, scopeVars, findVars, cmdVars, gitVars>>)
        \/ (Rename(q) /\ UNCHANGED <<codecVars, refVars, fsVars, scopeVars, findVars, cmdVars, gitVars>>)
        \/ (WriteFails(q) /\ UNCHANGED <<codecVars, refVars, fsVars, scopeVars, findVars, cmdVars, gitVars>>)
        \/ (Crash(q) /\ UNCHANGED <<codecVars, refVars, fsVars, scopeVars, findVars, cmdVars, gitVars>>)

SpecSave == InitSave /\ [][NextSave]_vars

\* the processes that have begun a save
Saving == {q \in Procs : pc[q] \in {"writing", "done", "failed", "crashed"}}

\* C1: at every step of save_thread, and after a failure or a crash at any
\* step, the file at the record's location holds the complete previous
\* content or the complete encoding of a record being saved, never a prefix
\* or a mixture
C1_AtomicSave ==
    /\ disk[Target].exists
    /\ \/ disk[Target].data = Text0
       \/ \E q \in Saving : disk[Target].data = serialize_thread(thread[q])

\* a process died (or failed) with its temporary file partly written, and
\* the other process has installed its complete encoding
C1_Witness ==
    \E q \in Procs, o \in Procs :
        /\ pc[q] \in {"crashed", "failed"}
        /\ disk[TempPath(q)].exists
        /\ written[q] > 0
        /\ written[q] < Len(serialize_thread(thread[q]))
        /\ pc[o] = "done"
        /\ disk[Target].data = serialize_thread(thread[o])

\* C6: two load-modify-save processes are not coordinated: after a rename
\* the file is the complete encoding written by the process whose rename
\* came last, whatever the other process has written
C6_LastWriterWins ==
    lastRename # "none" =>
        /\ disk[Target].exists
        /\ disk[Target].data = serialize_thread(thread[lastRename])

\* both commands completed, and the status change of p1 is lost: the file
\* is the encoding written by p2, which loaded the record before p1 renamed
C6_Witness ==
    /\ pc["p1"] = "done" /\ pc["p2"] = "done"
    /\ lastRename = "p2"
    /\ load_thread(disk[Target].data).status = Record0.status
    /\ load_thread(disk[Target].data).desc = <<"d">>

(***************************************************************************)
(* Reference resolution (workspace.py, lines 195-261)                      *)
(***************************************************************************)
UpperSeq == <<"A", "B", "C", "D", "E", "F", "G", "H", "I", "J", "K", "L", "M",
              "N", "O", "P", "Q", "R", "S", "T", "U", "V", "W", "X", "Y", "Z">>
LowerSeq == <<"a", "b", "c", "d", "e", "f", "g", "h", "i", "j", "k", "l", "m",
              "n", "o", "p", "q", "r", "s", "t", "u", "v", "w", "x", "y", "z">>
\* str.lower()
ToLower(s) ==
    [i \in 1..Len(s) |->
        IF s[i] \in Upper
        THEN LowerSeq[CHOOSE k \in 1..Len(UpperSeq) : UpperSeq[k] = s[i]]
        ELSE s[i]]
\* sub in s
Contains(s, sub) ==
    \E i \in 0..(Len(s) - Len(sub)) : SubSeq(s, i + 1, i + Len(sub)) = sub

\* re.match(r"^[0-9a-f]{6}$", ref)
IsHexId(r) == Len(r) = 6 /\ AllIn(r, HexLower)

\* path.stem[:6]
Stem6(path) == SubSeq(path.stem, 1, IF Len(path.stem) < 6 THEN Len(path.stem) ELSE 6)

extract_name_from_path(path) ==
    IF Len(path.stem) > 7 /\ path.stem[7] = "-" THEN Drop(path.stem, 7) ELSE path.stem

NoPath == [dir |-> <<>>, stem |-> <<>>, name |-> <<>>]
Found(path) == [kind |-> "found", path |-> path, ids |-> <<>>]
Ambiguous(ids) == [kind |-> "ambiguous", path |-> NoPath, ids |-> ids]
NotFound == [kind |-> "notfound", path |-> NoPath, ids |-> <<>>]

\* the fast path: the index of the first file whose stem starts with ref + "-"
RECURSIVE FastScan(_, _, _)
FastScan(r, ts, i) ==
    IF i > Len(ts) THEN 0
    ELSE IF StartsWith(ts[i].stem, r \o <<"-">>) THEN i
    ELSE FastScan(r, ts, i + 1)

\* the slow path's loop: the index of the first exact match (0 when none)
\* and the substring matches collected up to there
RECURSIVE SlowScan(_, _, _, _)
SlowScan(r, ts, i, subs) ==
    IF i > Len(ts) THEN [exact |-> 0, subs |-> subs]
    ELSE LET name == extract_name_from_path(ts[i])
         IN  IF name = r THEN [exact |-> i, subs |-> subs]
             ELSE SlowScan(r, ts, i + 1,
                           IF Contains(ToLower(name), ToLower(r))
                           THEN Append(subs, ts[i]) ELSE subs)

\* what follows the loop (lines 236-249)
PickFirstMatch(subs) ==
    IF Len(subs) >= 1 THEN Found(subs[1]) ELSE NotFound
AfterScan(subs) ==
    IF Len(subs) = 1 THEN Found(subs[1])
    ELSE IF Len(subs) > 1
    THEN Ambiguous([i \in 1..Len(subs) |->
                       <<Stem6(subs[i]), extract_name_from_path(subs[i])>>])
    ELSE NotFound

find_thread_by_ref(r, ts) ==
    LET f == IF IsHexId(r) THEN FastScan(r, ts, 1) ELSE 0
    IN  IF f # 0 THEN Found(ts[f])
        ELSE LET s == SlowScan(r, ts, 1, <<>>)
             IN  IF s.exact # 0 THEN Found(ts[s.exact]) ELSE AfterScan(s.subs)

(***************************************************************************)
(* SpecRef: find_thread_by_ref over the record files of a workspace.  A    *)
(* file is its directory, the stem of its filename, and the name stored in *)
(* its metadata header (which the resolver never reads).                   *)
(***************************************************************************)
MaxThreads == 3

dRoot == <<".">>
dSub == <<"s", "u", "b">>
sFixLogin == <<"F", "i", "x", " ", "l", "o", "g", "i", "n">>
FilePool ==
    {[dir |-> dRoot,
      stem |-> <<"a", "a", "a", "a", "a", "a", "-", "f", "i", "x", "-", "l", "o", "g", "i", "n">>,
      name |-> sFixLogin],
     [dir |-> dRoot,
      stem |-> <<"b", "b", "b", "b", "b", "b", "-", "f", "i", "x", "-", "l", "o", "g", "i", "n", "-", "b", "u", "g">>,
      name |-> sFixLogin \o <<" ", "b", "u", "g">>],
     [dir |-> dRoot,
      stem |-> <<"c", "c", "c", "c", "c", "c", "-", "a", "p", "i", "-", "o", "n", "e">>,
      name |-> <<"A", "P", "I", " ", "o", "n", "e">>],
     [dir |-> dSub,
      stem |-> <<"a", "a", "a", "a", "a", "a", "-", "a", "p", "i", "-", "t", "w", "o">>,
      name |-> <<"a", "p", "i", " ", "t", "w", "o">>],
     [dir |-> dSub,
      stem |-> <<"d", "d", "d", "d", "d", "d", "-", "f", "a", "c", "a", "d", "e">>,
      name |-> <<"F", "a", "c", "a", "d", "e">>],
     [dir |-> dRoot,
      stem |-> <<"n", "o", "t", "e", "s">>,
      name |-> <<"n", "o", "t", "e", "s">>]}
Refs ==
    {sFixLogin,
     <<"f", "i", "x", "-", "l", "o", "g", "i", "n">>,
     <<"a", "p", "i">>,
     <<"A", "P", "I">>,
     <<"a", "a", "a", "a", "a", "a">>,
     <<"f", "a", "c", "a", "d", "e">>,
     <<"n", "o">>,
     <<"o">>}

InitRef ==
    /\ threads \in InjSeqs(FilePool, MaxThreads)
    /\ ref \in Refs
    /\ result = [kind |-> "pending", path |-> NoPath, ids |-> <<>>]
    /\ CodecIdle /\ SaveIdle /\ FsIdle /\ ScopeIdle /\ FindIdle /\ CmdIdle /\ GitIdle

ResolveRef ==
    /\ result.kind = "pending"
    /\ result' = find_thread_by_ref(ref, threads)
    /\ UNCHANGED <<threads, ref>>
    /\ UNCHANGED <<codecVars, saveVars, fsVars, scopeVars, findVars, cmdVars, gitVars>>

NextRef == ResolveRef

SpecRef == InitRef /\ [][NextRef]_vars

Resolved == result.kind # "pending"

\* the files an identifier reference names, the exact matches and the
\* substring matches of a reference, as sets of positions in the list
IdMatches == {i \in 1..Len(threads) : StartsWith(threads[i].stem, ref \o <<"-">>)}
ExactSlug == {i \in 1..Len(threads) : extract_name_from_path(threads[i]) = ref}
ExactName == {i \in 1..Len(threads) : threads[i].name = ref}
SubMatch(f) == Contains(ToLower(extract_name_from_path(f)), ToLower(ref))

C4_ExactMatchWins ==
    (Resolved /\ (ExactName \cup ExactSlug) # {})
    => /\ result.kind = "found"
       /\ (result.path.name = ref \/ extract_name_from_path(result.path) = ref)

\* C5: for a reference of six lowercase hex digits, one file named
\* ref + "-"... is returned, none falls through to name matching, and more
\* than one is an ambiguity failure
C5_IdCount ==
    (Resolved /\ IsHexId(ref))
    => /\ Cardinality(IdMatches) = 1
            => result = Found(threads[CHOOSE i \in IdMatches : TRUE])
       /\ IdMatches = {}
            => result.kind \in {"found", "ambiguous", "notfound"}
       /\ Cardinality(IdMatches) > 1 => result.kind = "ambiguous"

(***************************************************************************)
(* Paths.  A name is a string, a path the sequence of its names from the   *)
(* filesystem root; a path expression is a string split at "/".            *)
(***************************************************************************)
nDot == <<".">>
nDotDot == <<".", ".">>
nThreads == <<".", "t", "h", "r", "e", "a", "d", "s">>
sRepoRoot == <<"r", "e", "p", "o", " ", "r", "o", "o", "t">>

IsPrefix(p, q) == Len(p) <= Len(q) /\ SubSeq(q, 1, Len(p)) = p
Parent(p) == IF Len(p) = 0 THEN p ELSE SubSeq(p, 1, Len(p) - 1)

\* s.split("/")
RECURSIVE SplitSlash(_)
SplitSlash(s) ==
    IF \A i \in 1..Len(s) : s[i] # "/" THEN <<s>>
    ELSE LET i == CHOOSE i \in 1..Len(s) : s[i] = "/" /\ \A j \in 1..(i-1) : s[j] # "/"
         IN  <<SubSeq(s, 1, i - 1)>> \o SplitSlash(Drop(s, i))
\* the parts pathlib keeps: empty parts and "." are dropped, ".." stays
KeptPart(c) == c # EmptyStr /\ c # nDot
Parts(s) == SelectSeq(SplitSlash(s), KeptPart)
\* base / s : an absolute s replaces the base
PathJoin(base, s) == IF StartsWith(s, <<"/">>) THEN Parts(s) ELSE base \o Parts(s)

\* Path.resolve() without symbolic links: ".." removes the name before it
RECURSIVE ResolveFrom(_, _)
ResolveFrom(acc, rest) ==
    IF Len(rest) = 0 THEN acc
    ELSE IF Head(rest) = nDotDot THEN ResolveFrom(Parent(acc), Tail(rest))
    ELSE ResolveFrom(Append(acc, Head(rest)), Tail(rest))
Resolve(p) == ResolveFrom(<<>>, p)

\* str() of a relative path: the names joined by "/", "." when there are none
RECURSIVE JoinSlash(_)
JoinSlash(p) ==
    IF Len(p) = 0 THEN nDot
    ELSE IF Len(p) = 1 THEN p[1]
    ELSE p[1] \o <<"/">> \o JoinSlash(Tail(p))

(***************************************************************************)
(* Scope resolution (workspace.py, lines 60-149)                           *)
(***************************************************************************)
is_git_root(path) == path \in gitDirs

\* lines 90-92: "." is the working directory
DotIsRoot(wd, git_root) == git_root
DotTarget(wd, git_root) == wd

\* lines 100-102: any other expression is relative to the repository root
RootRelativeFromPwd(s, wd, git_root) == PathJoin(wd, s)
RootRelativeTarget(s, wd, git_root) == PathJoin(git_root, s)

\* lines 85-102: the target before it is resolved
TargetPath(arg, wd, git_root) ==
    IF ~arg.given \/ arg.s = EmptyStr THEN wd
    ELSE IF arg.s = nDot THEN DotTarget(wd, git_root)
    ELSE IF StartsWith(arg.s, <<".", "/">>) THEN PathJoin(wd, Drop(arg.s, 2))
    ELSE IF StartsWith(arg.s, <<"/">>) THEN Parts(arg.s)
    ELSE RootRelativeTarget(arg.s, wd, git_root)

\* lines 121-128: the walk from the target up to the root, excluding the root
RECURSIVE NestedWalk(_, _)
NestedWalk(check_path, root) ==
    IF check_path = root THEN FALSE
    ELSE IF is_git_root(check_path) THEN TRUE
    ELSE NestedWalk(Parent(check_path), root)
NestedAboveTarget(target, root) ==
    target # root /\ NestedWalk(Parent(target), root)
InsideNestedRepo(target, root) ==
    target # root /\ NestedWalk(target, root)

ScopeError(why) ==
    [ok |-> FALSE, error |-> why, threads_dir |-> <<>>, path |-> <<>>, level_desc |-> <<>>]

infer_scope(arg, wd, git_root) ==
    LET target_path == Resolve(TargetPath(arg, wd, git_root))
        git_root_resolved == Resolve(git_root)
    IN  IF target_path \notin dirs THEN ScopeError("not a directory")
        ELSE IF ~IsPrefix(git_root_resolved, target_path) THEN ScopeError("outside")
        ELSE IF InsideNestedRepo(target_path, git_root_resolved) THEN ScopeError("nested")
        ELSE LET rel_path == JoinSlash(Drop(target_path, Len(git_root_resolved)))
             IN  [ok |-> TRUE, error |-> "",
                  threads_dir |-> Append(target_path, nThreads),
                  path |-> rel_path,
                  level_desc |-> IF rel_path = nDot THEN sRepoRoot ELSE rel_path]

(***************************************************************************)
(* SpecScope: infer_scope over a directory tree, a working directory and a *)
(* path expression                                                         *)
(***************************************************************************)
ScopeDepth == 2

nA == <<"a">>
nB == <<"b">>
nO == <<"o">>
nR == <<"r">>
Root == <<nR>>

\* the paths of at most depth names below base
Tree(base, names, depth) == {base \o p : p \in UNION {[1..k -> names] : k \in 0..depth}}

ScopeDirs == {<<>>, <<nO>>} \cup Tree(Root, {nA, nB}, ScopeDepth)

PathArgs ==
    {[given |-> FALSE, s |-> EmptyStr]}
    \cup {[given |-> TRUE, s |-> e] : e \in
            {EmptyStr, nDot, <<".", "/", "a">>, <<".", "/", ".", ".">>, <<"/", "r", "/", "a">>, <<"/", "o">>,
             <<"a">>, <<"a", "/", "b">>, <<"a", "/">>, <<"a", "/", ".", ".", "/", "b">>, <<"a", "/", ".", ".">>, <<".", ".">>, <<"x">>, <<"a", "/", ".", "/", "b">>}}

InitScope ==
    /\ dirs = ScopeDirs
    /\ \E nested \in SUBSET (Tree(Root, {nA, nB}, ScopeDepth) \ {Root}) :
          /\ Cardinality(nested) <= 1
          /\ gitDirs = {Root} \cup nested
    /\ threadsDirs = {}
    /\ files = <<>>
    /\ noRead = {}
    /\ listing = "off"
    /\ pwd \in ScopeDirs
    /\ pathArg \in PathArgs
    /\ scope = [ok |-> FALSE, error |-> "pending", threads_dir |-> <<>>,
                path |-> <<>>, level_desc |-> <<>>]
    /\ CodecIdle /\ SaveIdle /\ RefIdle /\ FindIdle /\ CmdIdle /\ GitIdle

InferScope ==
    /\ scope.error = "pending"
    /\ scope' = infer_scope(pathArg, pwd, Root)
    /\ UNCHANGED <<pwd, pathArg>>
    /\ UNCHANGED <<codecVars, saveVars, refVars, fsVars, findVars, cmdVars, gitVars>>

NextScope == InferScope

SpecScope == InitScope /\ [][NextScope]_vars

ScopeDone == scope.error # "pending"
ArgIsDot == pathArg.given /\ pathArg.s = nDot
\* an expression of the fifth rule: not absent, empty or ".", no leading "./" or "/"
ArgIsRootRelative ==
    /\ pathArg.given
    /\ pathArg.s \notin {EmptyStr, nDot}
    /\ ~StartsWith(pathArg.s, <<".", "/">>)
    /\ ~StartsWith(pathArg.s, <<"/">>)
\* the conditions of a valid target t: an existing directory, in the subtree
\* of the root, no repository root from t up to the root (the root excluded)
ValidTarget(t) ==
    /\ t \in dirs
    /\ IsPrefix(Root, t)
    /\ \A k \in (Len(Root) + 1)..Len(t) : SubSeq(t, 1, k) \notin gitDirs

C8_PathIsExpression ==
    (ScopeDone /\ ArgIsRootRelative /\ ValidTarget(Resolve(Root \o Parts(pathArg.s))))
    => /\ scope.ok
       /\ scope.path = pathArg.s
       /\ scope.level_desc = (IF scope.path = nDot THEN sRepoRoot ELSE pathArg.s)

\* the expression is already the normal form of a relative path
Normalized(e) ==
    LET c == SplitSlash(e)
    IN  \A i \in 1..Len(c) : c[i] \notin {EmptyStr, nDot, nDotDot}

\* C8, amended: a root-relative expression E is resolved against the root,
\* whatever the working directory; when it resolves to a valid target the
\* path is the target's path relative to the root (E itself when E is
\* normalized), threads_dir is the target's .threads and level_desc is the
\* path, or "repo root" when the path is "."
C8_RootRelative ==
    (ScopeDone /\ ArgIsRootRelative)
    => /\ \A wd \in dirs : infer_scope(pathArg, wd, Root) = scope
       /\ LET t == Resolve(Root \o Parts(pathArg.s))
          IN  ValidTarget(t)
              => /\ scope.ok
                 /\ scope.threads_dir = Append(t, nThreads)
                 /\ scope.path = JoinSlash(Drop(t, Len(Root)))
                 /\ Normalized(pathArg.s) => scope.path = pathArg.s
                 /\ scope.level_desc =
                        (IF scope.path = nDot THEN sRepoRoot ELSE scope.path)

C8_Witness ==
    /\ ScopeDone /\ scope.ok
    /\ pathArg.s = <<"a", "/", "b">>
    /\ pwd = Root \o <<nB>>
    /\ scope.path = <<"a", "/", "b">>
    /\ scope.threads_dir = Root \o <<nA, nB, nThreads>>

\* C9: infer_scope succeeds only if the resolved target is an existing
\* directory within the root's subtree with no repository root on the path
\* from the target up to, and excluding, the root; otherwise it fails and
\* returns no scope
C9_ValidTargetOnly ==
    ScopeDone
    => LET t == Resolve(TargetPath(pathArg, pwd, Root))
       IN  /\ scope.ok => ValidTarget(t)
           /\ ~ValidTarget(t) => (~scope.ok /\ scope.threads_dir = <<>> /\ scope.path = <<>>)

\* the target is a directory of the repository that is itself a nested
\* repository root, and the resolution failed
C9_Witness ==
    /\ ScopeDone /\ ~scope.ok
    /\ Resolve(TargetPath(pathArg, pwd, Root)) \in gitDirs \ {Root}

(***************************************************************************)
(* The search engine (storage.py, lines 15-52 and 262-431).  A file is     *)
(* [dir, name]: the directory that holds the .threads directory, and the   *)
(* name of the entry in it; files maps it to its kind and its mtime.       *)
(***************************************************************************)
sMd == <<".", "m", "d">>
sArchive == <<"/", "a", "r", "c", "h", "i", "v", "e", "/">>
nArchive == <<"a", "r", "c", "h", "i", "v", "e">>
nH == <<".", "h">>
fRecord == <<"x", ".", "m", "d">>

\* Path.suffix: from the last dot of the name, unless the name starts there
Suffix(name) ==
    LET D == {i \in 2..Len(name) : name[i] = "."}
    IN  IF D = {} \/ name[Len(name)] = "." THEN EmptyStr
        ELSE Drop(name, (CHOOSE i \in D : \A j \in D : j <= i) - 1)

\* str(entry) for an entry of a .threads directory
RECURSIVE AbsStr(_)
AbsStr(p) == IF Len(p) = 0 THEN <<>> ELSE <<"/">> \o Head(p) \o AbsStr(Tail(p))
EntryStr(f) == AbsStr(f.dir \o <<nThreads, f.name>>)

\* the elements of a finite set as a list, in some order
RECURSIVE Listed(_)
Listed(S) ==
    IF S = {} THEN <<>>
    ELSE LET x == CHOOSE x \in S : TRUE IN <<x>> \o Listed(S \ {x})

Range(q) == {q[i] : i \in 1..Len(q)}

\* a number for each directory and each file, different for different ones
nameCode(n) ==
    IF n \in {nA, nR} THEN 1 ELSE IF n \in {nB, nO} THEN 2 ELSE IF n = nH THEN 3 ELSE 4
RECURSIVE dirCode(_)
dirCode(p) == IF Len(p) = 0 THEN 0 ELSE dirCode(Parent(p)) * 5 + nameCode(p[Len(p)])
fileCode(f) == dirCode(f.dir) * 2 + (IF f.name = fRecord THEN 0 ELSE 1)

\* the directories of S in the order the file system lists them
RECURSIVE InOrder(_)
InOrder(S) ==
    IF S = {} THEN <<>>
    ELSE LET x == CHOOSE x \in S : \A y \in S :
                      IF listing = "asc" THEN dirCode(x) <= dirCode(y)
                      ELSE dirCode(y) <= dirCode(x)
         IN  <<x>> \o InOrder(S \ {x})

\* iterating over set(threads): an order fixed by the hashes of the paths,
\* which are fixed within one process
RECURSIVE SetIter(_)
SetIter(S) ==
    IF S = {} THEN <<>>
    ELSE LET x == CHOOSE x \in S : \A y \in S :
                      IF hashSeed = "asc" THEN fileCode(x) <= fileCode(y)
                      ELSE fileCode(y) <= fileCode(x)
         IN  <<x>> \o SetIter(S \ {x})

_is_git_root(path) == path \in gitDirs

\* lines 316-324
Collectable(f) ==
    /\ files[f].kind = "file"
    /\ Suffix(f.name) = sMd
    /\ ~Contains(EntryStr(f), sArchive)
_collect_threads_at_path(dir_path) ==
    IF dir_path \in threadsDirs
    THEN Listed({f \in DOMAIN files : f.dir = dir_path /\ Collectable(f)})
    ELSE <<>>
\* threads_dir.iterdir() raises PermissionError (line 320)
CollectRaises(dir_path) ==
    dir_path \in threadsDirs /\ (dir_path \o <<nThreads>>) \in noRead

\* dir_path.iterdir(), the entries with is_dir() (lines 341-343)
SubDirs(dir_path) == {d \in dirs : Len(d) = Len(dir_path) + 1 /\ IsPrefix(dir_path, d)}
ListDir(dir_path) == InOrder(SubDirs(dir_path))
Hidden(name) == StartsWith(name, <<".">>)

\* lines 337-338 and 376-377: the depth limit, -1 for none
DepthPassed(current_depth, max_depth) == max_depth >= 0 /\ current_depth > max_depth
DepthExhausted(current_depth, max_depth) == max_depth >= 0 /\ current_depth >= max_depth

\* line 352: the entry is a nested repository that is not to be entered
BoundaryAlways(entry, git_root, cross) == entry # git_root /\ _is_git_root(entry)
GitBoundary(entry, git_root, cross) == ~cross /\ entry # git_root /\ _is_git_root(entry)

\* lines 327-363: todo is the part of dir_path.iterdir() still to visit; a
\* PermissionError of iterdir or of the collection at an entry ends the loop
RECURSIVE FindDownOver(_, _, _, _, _)
_find_threads_down(dir_path, git_root, current_depth, max_depth, cross) ==
    IF DepthExhausted(current_depth, max_depth) THEN <<>>
    ELSE IF dir_path \in noRead THEN <<>>
    ELSE FindDownOver(ListDir(dir_path), git_root, current_depth, max_depth, cross)
FindDownOver(todo, git_root, current_depth, max_depth, cross) ==
    IF todo = <<>> THEN <<>>
    ELSE LET entry == Head(todo)
             rest == FindDownOver(Tail(todo), git_root, current_depth, max_depth, cross)
         IN  IF Hidden(entry[Len(entry)]) THEN rest
             ELSE IF GitBoundary(entry, git_root, cross) THEN rest
             ELSE IF CollectRaises(entry) THEN <<>>
             ELSE _collect_threads_at_path(entry)
                  \o _find_threads_down(entry, git_root, current_depth + 1, max_depth, cross)
                  \o rest

\* lines 385-390: the parent is outside the repository and is not to be visited
AboveRootOrRoot(parent, git_root, cross) ==
    ~cross /\ ~(IsPrefix(Resolve(git_root), parent) /\ parent # Resolve(git_root))
AboveRoot(parent, git_root, cross) == ~cross /\ ~IsPrefix(Resolve(git_root), parent)

\* lines 366-399
RECURSIVE _find_threads_up(_, _, _, _, _)
_find_threads_up(dir_path, git_root, current_depth, max_depth, cross) ==
    IF DepthExhausted(current_depth, max_depth) THEN <<>>
    ELSE IF Parent(dir_path) = dir_path THEN <<>>
    ELSE IF AboveRoot(Parent(dir_path), git_root, cross) THEN <<>>
    ELSE _collect_threads_at_path(Parent(dir_path))
         \o _find_threads_up(Parent(dir_path), git_root, current_depth + 1, max_depth, cross)
\* the PermissionError of a collection leaves _find_threads_up (line 393)
RECURSIVE UpRaises(_, _, _, _, _)
UpRaises(dir_path, git_root, current_depth, max_depth, cross) ==
    IF DepthExhausted(current_depth, max_depth) THEN FALSE
    ELSE IF Parent(dir_path) = dir_path THEN FALSE
    ELSE IF AboveRoot(Parent(dir_path), git_root, cross) THEN FALSE
    ELSE \/ CollectRaises(Parent(dir_path))
         \/ UpRaises(Parent(dir_path), git_root, current_depth + 1, max_depth, cross)

\* sorted(s, key=mtime, reverse=True): a stable sort, files of equal mtime
\* keep the order they have in s
DropAt(s, i) == SubSeq(s, 1, i - 1) \o SubSeq(s, i + 1, Len(s))
RECURSIVE SortedOldestFirst(_)
SortedOldestFirst(s) ==
    IF s = <<>> THEN <<>>
    ELSE LET i == CHOOSE i \in 1..Len(s) :
                      /\ \A j \in 1..Len(s) : files[s[i]].mtime <= files[s[j]].mtime
                      /\ \A j \in 1..(i - 1) : files[s[i]].mtime < files[s[j]].mtime
         IN  <<s[i]>> \o SortedOldestFirst(DropAt(s, i))
RECURSIVE SortedByMtime(_)
SortedByMtime(s) ==
    IF s = <<>> THEN <<>>
    ELSE LET i == CHOOSE i \in 1..Len(s) :
                      /\ \A j \in 1..Len(s) : files[s[j]].mtime <= files[s[i]].mtime
                      /\ \A j \in 1..(i - 1) : files[s[j]].mtime < files[s[i]].mtime
         IN  <<s[i]>> \o SortedByMtime(DropAt(s, i))

\* lines 409-427: the list before it is deduplicated and sorted
CollectedEither(start_path, git_root, opt) ==
    _collect_threads_at_path(Resolve(start_path))
    \o (IF opt.down.has
        THEN _find_threads_down(Resolve(start_path), git_root, 0, opt.down.n,
                                opt.no_git_bound_down)
        ELSE IF opt.up.has
        THEN _find_threads_up(Resolve(start_path), git_root, 0, opt.up.n,
                              opt.no_git_bound_up)
        ELSE <<>>)
Collected(start_path, git_root, opt) ==
    _collect_threads_at_path(Resolve(start_path))
    \o (IF opt.down.has
        THEN _find_threads_down(Resolve(start_path), git_root, 0, opt.down.n,
                                opt.no_git_bound_down)
        ELSE <<>>)
    \o (IF opt.up.has
        THEN _find_threads_up(Resolve(start_path), git_root, 0, opt.up.n,
                              opt.no_git_bound_up)
        ELSE <<>>)

\* lines 402-431: the list returned, when no PermissionError leaves the call
find_threads_with_options(start_path, git_root, opt) ==
    SortedByMtime(SetIter(Range(Collected(start_path, git_root, opt))))
\* a PermissionError leaves the call (lines 413 and 424-427 stand in no try)
FindRaises(start_path, git_root, opt) ==
    \/ CollectRaises(Resolve(start_path))
    \/ /\ opt.up.has
       /\ UpRaises(Resolve(start_path), git_root, 0, opt.up.n, opt.no_git_bound_up)

\* lines 267-301: the collection at dir_path stands before the try, so its
\* PermissionError leaves the call and ends the loop of the caller
RECURSIVE FindRecursiveOver(_, _)
_find_threads_recursive(dir_path, git_root) ==
    _collect_threads_at_path(dir_path)
    \o (IF dir_path \in noRead THEN <<>>
        ELSE FindRecursiveOver(ListDir(dir_path), git_root))
FindRecursiveOver(todo, git_root) ==
    IF todo = <<>> THEN <<>>
    ELSE LET entry == Head(todo)
             rest == FindRecursiveOver(Tail(todo), git_root)
         IN  IF Hidden(entry[Len(entry)]) THEN rest
             ELSE IF entry # git_root /\ _is_git_root(entry) THEN rest
             ELSE IF CollectRaises(entry) THEN <<>>
             ELSE _find_threads_recursive(entry, git_root) \o rest

\* the records of the root's own .threads only
FindAtRootOnly(git_root) == SortedByMtime(_collect_threads_at_path(git_root))
\* lines 304-313
find_threads(git_root) == SortedByMtime(_find_threads_recursive(git_root, git_root))

(***************************************************************************)
(* SpecFind: find_threads_with_options and find_threads over a tree        *)
(***************************************************************************)
MaxDepth == 2

FindNames == {nA, nB, nH}
FindDirs == {<<>>, <<nO>>, Root \o <<nArchive>>} \cup Tree(Root, FindNames, MaxDepth)

\* an absent depth, and a depth
Absent == [has |-> FALSE, n |-> 0]
Depth(n) == [has |-> TRUE, n |-> n]

\* what the .threads directories hold: a record in each, and in two of
\* them entries that are no records
InitFiles ==
    LET recs == {[dir |-> d, name |-> fRecord] : d \in FindDirs \ {Root \o <<nB>>}}
        junk == {[dir |-> Root, name |-> <<"t", ".", "t", "x", "t">>],
                 [dir |-> Root, name |-> <<"d", ".", "m", "d">>],
                 [dir |-> Root \o <<nA>>, name |-> nArchive]}
    IN  [f \in recs \cup junk |->
            IF f \in junk
            THEN [kind |-> IF f.name = <<"t", ".", "t", "x", "t">> THEN "file" ELSE "dir", mtime |-> 0]
            ELSE [kind |-> "file",
                  mtime |-> IF f.dir = Root \o <<nB, nA>> THEN dirCode(Root \o <<nA>>)
                            ELSE dirCode(f.dir)]]

FindOptionsSet ==
    [down : {Absent} \cup {Depth(n) : n \in (-1)..(MaxDepth + 1)},
     up : {Absent, Depth(-1), Depth(1), Depth(2)},
     no_git_bound_down : BOOLEAN,
     no_git_bound_up : BOOLEAN]

\* at most one path without read permission: a .threads directory or a
\* directory
NoReadChoices ==
    {{}, {Root \o <<nA, nThreads>>}, {Root \o <<nThreads>>}, {Root \o <<nA>>}}

InitFind ==
    /\ dirs = FindDirs
    /\ \E nested \in SUBSET ((Tree(Root, {nA}, MaxDepth) \ {Root}) \cup {Root \o <<nB>>}) :
          /\ Cardinality(nested) <= 1
          /\ gitDirs = {Root} \cup nested
    /\ threadsDirs = FindDirs \ {Root \o <<nB>>}
    /\ files = InitFiles
    /\ noRead \in NoReadChoices
    /\ listing \in {"asc", "desc"}
    /\ hashSeed \in {"asc", "desc"}
    /\ start \in {<<>>, Root, Root \o <<nA>>, Root \o <<nA, nA>>}
    /\ options \in FindOptionsSet
    /\ found = [state |-> "pending", list |-> <<>>]
    /\ CodecIdle /\ SaveIdle /\ RefIdle /\ ScopeIdle /\ CmdIdle /\ GitIdle

Find ==
    /\ found.state = "pending"
    /\ found' = IF FindRaises(start, Root, options)
                THEN [state |-> "failed", list |-> <<>>]
                ELSE [state |-> "done",
                      list |-> find_threads_with_options(start, Root, options)]
    /\ UNCHANGED <<start, options, hashSeed>>
    /\ UNCHANGED <<codecVars, saveVars, refVars, fsVars, scopeVars, cmdVars, gitVars>>

FindAll ==
    /\ found.state = "pending"
    /\ found' = IF CollectRaises(Root)
                THEN [state |-> "failed", list |-> <<>>]
                ELSE [state |-> "all", list |-> find_threads(Root)]
    /\ UNCHANGED <<start, options, hashSeed>>
    /\ UNCHANGED <<codecVars, saveVars, refVars, fsVars, scopeVars, cmdVars, gitVars>>

NextFind == Find \/ FindAll

SpecFind == InitFind /\ [][NextFind]_vars

FindDone == found.state = "done"
Readable == noRead = {}

\* a record file: a .md file directly inside a .threads directory
Qualifies(f) ==
    /\ f.dir \in threadsDirs
    /\ files[f].kind = "file"
    /\ EndsWith(f.name, sMd)
    /\ \A i \in 1..Len(f.dir) : f.dir[i] # nArchive
\* d is below the start directory and the descent reaches it: no hidden
\* name and, unless the boundary may be crossed, no nested repository root
\* from below the start down to d
Descends(d) ==
    /\ IsPrefix(start, d) /\ d # start
    /\ \A k \in (Len(start) + 1)..Len(d) :
          /\ d[k][1] # "."
          /\ (options.no_git_bound_down \/ SubSeq(d, 1, k) \notin (gitDirs \ {Root}))
\* the files held at depths 0..n below the start directory
WithinDepth(n) ==
    {f \in DOMAIN files :
        /\ Qualifies(f)
        /\ (f.dir = start \/ (Descends(f.dir) /\ Len(f.dir) - Len(start) <= n))}

\* C10: with downward depth N >= 0 and no upward search the result is
\* exactly the record files at depths 0..N below start; with no downward
\* depth it is depth 0 only, and with -1 every depth (every directory of
\* the tree being readable)
C10_DownDepth ==
    (FindDone /\ ~options.up.has /\ Readable)
    => /\ Range(found.list) =
            WithinDepth(IF ~options.down.has THEN 0
                        ELSE IF options.down.n = -1 THEN Cardinality(dirs)
                        ELSE options.down.n)
       /\ Len(found.list) = Cardinality(Range(found.list))

\* down = 1 from the root: the records of depth 0 and 1 are returned, and
\* a record of depth 2 that the descent would reach is not
C10_Witness ==
    /\ FindDone /\ ~options.up.has /\ Readable
    /\ options.down = Depth(1)
    /\ start = Root
    /\ [dir |-> Root, name |-> fRecord] \in Range(found.list)
    /\ [dir |-> Root \o <<nA>>, name |-> fRecord] \in Range(found.list)
    /\ [dir |-> Root \o <<nA, nA>>, name |-> fRecord] \notin Range(found.list)
    /\ Descends(Root \o <<nA, nA>>)

\* d is strictly below the start directory
BelowStart(d) == IsPrefix(start, d) /\ d # start
\* a directory from below the start down to d is hidden
HiddenBelow(d) == \E k \in (Len(start) + 1)..Len(d) : d[k][1] = "."
\* a directory from below the start down to d holds .git and is not the root
NestedBelow(d) == \E k \in (Len(start) + 1)..Len(d) : SubSeq(d, 1, k) \in gitDirs \ {Root}
\* the downward depth reaches d
DepthReaches(d) ==
    /\ options.down.has
    /\ (options.down.n = -1 \/ Len(d) - Len(start) <= options.down.n)

\* C11: a search returns no record in or below a hidden subdirectory of
\* start; with the cross-boundary flag unset it returns no record in or
\* below a subdirectory holding .git (the root excepted), and with the flag
\* set it returns the records of such subdirectories that the depth reaches
C11_GitBoundary ==
    FindDone =>
        \A f \in DOMAIN files :
            BelowStart(f.dir) =>
                /\ HiddenBelow(f.dir) => f \notin Range(found.list)
                /\ (~options.no_git_bound_down /\ NestedBelow(f.dir))
                       => f \notin Range(found.list)
                /\ (/\ options.no_git_bound_down /\ NestedBelow(f.dir)
                    /\ Readable /\ Qualifies(f)
                    /\ ~HiddenBelow(f.dir) /\ DepthReaches(f.dir))
                       => f \in Range(found.list)

\* the directory a of the root is a nested repository: with the flag set
\* the record below it is returned, and the record of the hidden directory
\* beside it is not
C11_Witness ==
    /\ FindDone /\ Readable
    /\ start = Root /\ options.down = Depth(-1) /\ options.no_git_bound_down
    /\ Root \o <<nA>> \in gitDirs
    /\ [dir |-> Root \o <<nA, nA>>, name |-> fRecord] \in Range(found.list)
    /\ [dir |-> Root \o <<nH>>, name |-> fRecord] \notin Range(found.list)

\* d is an ancestor of the start directory that the upward search visits:
\* within the depth, and not above the repository root unless the boundary
\* may be crossed
UpReaches(d) ==
    /\ IsPrefix(d, start) /\ d # start
    /\ (options.up.n = -1 \/ Len(start) - Len(d) <= options.up.n)
    /\ (options.no_git_bound_up \/ IsPrefix(Root, d))

\* C12: an upward search of depth N returns the records of start and of
\* its nearest N ancestors (all of them for -1), the repository root
\* included, and of no directory above the root unless the cross-boundary
\* flag is set, which lets it go on to the file system root
C12_UpSearch ==
    (FindDone /\ options.up.has /\ ~options.down.has /\ Readable)
    => Range(found.list) =
           {f \in DOMAIN files :
               Qualifies(f) /\ (f.dir = start \/ UpReaches(f.dir))}

\* from two levels below the root with up = -1 and the flag unset: the
\* records of the parent and of the root are returned, the record of the
\* directory above the root is not
C12_Witness ==
    /\ FindDone /\ Readable
    /\ start = Root \o <<nA, nA>>
    /\ options.up = Depth(-1) /\ ~options.down.has /\ ~options.no_git_bound_up
    /\ [dir |-> Root \o <<nA>>, name |-> fRecord] \in Range(found.list)
    /\ [dir |-> Root, name |-> fRecord] \in Range(found.list)
    /\ [dir |-> <<>>, name |-> fRecord] \in DOMAIN files
    /\ [dir |-> <<>>, name |-> fRecord] \notin Range(found.list)

\* C13: the result with both a downward and an upward depth is the union
\* of the result with the downward depth alone and the result with the
\* upward depth alone, and no file occurs twice in a result
C13_UnionOfBoth ==
    (FindDone /\ options.down.has /\ options.up.has)
    => /\ Range(found.list) =
            Range(find_threads_with_options(start, Root, [options EXCEPT !.up = Absent]))
            \cup Range(find_threads_with_options(start, Root, [options EXCEPT !.down = Absent]))
       /\ Len(found.list) = Cardinality(Range(found.list))

\* from the directory a with down and up both unlimited: a record below
\* the start and a record above it are both in the result
C13_Witness ==
    /\ FindDone
    /\ start = Root \o <<nA>>
    /\ options.down = Depth(-1) /\ options.up = Depth(-1)
    /\ [dir |-> Root \o <<nA, nA>>, name |-> fRecord] \in Range(found.list)
    /\ [dir |-> Root, name |-> fRecord] \in Range(found.list)
    /\ Len(found.list) = Cardinality(Range(found.list))

\* a .md file located directly inside a .threads directory
InReserved(f) ==
    /\ f.dir \in threadsDirs
    /\ files[f].kind = "file"
    /\ EndsWith(f.name, sMd)
\* the search visits the directory d
Visits(d) ==
    \/ d = start
    \/ Descends(d) /\ DepthReaches(d)
    \/ options.up.has /\ UpReaches(d)

\* C14: every file returned is a .md file directly inside the .threads
\* directory of a visited directory, and every such file is returned, one
\* whose directory path has a directory named archive in it included
C14_ArchiveOnlyReserved ==
    (FindDone /\ Readable)
    => /\ \A f \in Range(found.list) : InReserved(f) /\ Visits(f.dir)
       /\ \A f \in DOMAIN files :
              (InReserved(f) /\ Visits(f.dir)) => f \in Range(found.list)

\* every directory from the start down to d, d excluded, can be listed,
\* and the .threads directory of d can be read
ReadableTo(d) ==
    /\ (d \o <<nThreads>>) \notin noRead
    /\ \A k \in Len(start)..(Len(d) - 1) : SubSeq(d, 1, k) \notin noRead

\* C15: with an unreadable directory in the tree the search does not fail,
\* and it returns every record of every visited directory that can be read
C15_BestEffort ==
    (found.state \in {"done", "failed"} /\ ~Readable)
    => /\ found.state = "done"
       /\ \A f \in DOMAIN files :
              (Qualifies(f) /\ Visits(f.dir) /\ ReadableTo(f.dir))
                  => f \in Range(found.list)

\* no file of the list stands before a more recently modified one
NewestFirst(s) ==
    \A i \in 1..Len(s) : \A j \in i..Len(s) : files[s[j]].mtime <= files[s[i]].mtime

Stem(name) == SubSeq(name, 1, Len(name) - Len(Suffix(name)))

\* crud.py lines 33-39
Dashed(s) == [i \in 1..Len(s) |-> IF s[i] \in Lower \cup Digits THEN s[i] ELSE "-"]
RECURSIVE Collapse(_)
Collapse(s) ==
    IF Len(s) < 2 THEN s
    ELSE IF s[1] = "-" /\ s[2] = "-" THEN Collapse(Tail(s))
    ELSE <<s[1]>> \o Collapse(Tail(s))
StripDashes(s) ==
    LET I == {i \in 1..Len(s) : s[i] # "-"}
    IN  IF I = {} THEN EmptyStr
        ELSE SubSeq(s, CHOOSE i \in I : \A j \in I : i <= j,
                       CHOOSE i \in I : \A j \in I : j <= i)
slugify(title) == StripDashes(Collapse(Dashed(ToLower(title))))

\* crud.py lines 17-22: the id prefixes of the record files found
HasIdPrefix(stem) ==
    Len(stem) >= 7 /\ AllIn(SubSeq(stem, 1, 6), HexLower) /\ stem[7] = "-"
NoExistingIds(ts) == {}
existing_ids(ts) ==
    {SubSeq(Stem(ts[i].name), 1, 6) :
        i \in {j \in 1..Len(ts) : HasIdPrefix(Stem(ts[j].name))}}

\* range(10), crud.py line 25
Attempts == 10
\* secrets.token_hex(3): the identifiers it is let to draw here
IdPool == {<<"a", "a", "a", "a", "a", "a">>, <<"b", "b", "b", "b", "b", "b">>}
NoId == EmptyStr
\* crud.py lines 25-30: what generate_id can return, NoId for RuntimeError
RECURSIVE GenerateFrom(_, _)
GenerateFrom(existing, attempts) ==
    IF attempts = 0 THEN {NoId}
    ELSE (IdPool \ existing)
         \cup (IF IdPool \cap existing # {} THEN GenerateFrom(existing, attempts - 1)
               ELSE {})
generate_id(ts) == GenerateFrom(existing_ids(ts), Attempts)

\* a record file as the Path the resolver gets, and back
AsPath(f) == [dir |-> f.dir, stem |-> Stem(f.name), name |-> EmptyStr]
AsPaths(ts) == [i \in 1..Len(ts) |-> AsPath(ts[i])]
AsFile(path) == [dir |-> path.dir, name |-> path.stem \o sMd]
NoRecordFile == [dir |-> <<>>, name |-> EmptyStr]

sBogus == <<"b", "o", "g", "u", "s">>
sToday == <<"2", "0", "2", "4", "-", "0", "1", "-", "0", "2">>
sNow == <<"1", "0", ":", "0", "0">>
sCreated == <<"C", "r", "e", "a", "t", "e", "d", " ", "t", "h", "r", "e", "a", "d", ".">>

\* models.py lines 7-14
ACTIVE_STATUSES == {<<"i", "d", "e", "a">>, <<"p", "l", "a", "n", "n", "i", "n", "g">>, <<"a", "c", "t", "i", "v", "e">>, <<"b", "l", "o", "c", "k", "e", "d">>, <<"p", "a", "u", "s", "e", "d">>}
TERMINAL_STATUSES == {<<"r", "e", "s", "o", "l", "v", "e", "d">>, <<"s", "u", "p", "e", "r", "s", "e", "d", "e", "d">>, <<"d", "e", "f", "e", "r", "r", "e", "d">>}
ALL_STATUSES == ACTIVE_STATUSES \cup TERMINAL_STATUSES
\* a status taken whole, suffix and all
WholeStatus(status) == status
base_status(status) ==
    LET I == {i \in 1..(Len(status) - 1) : status[i] = " " /\ status[i + 1] = "("}
    IN  IF I = {} THEN status
        ELSE SubSeq(status, 1, (CHOOSE i \in I : \A j \in I : i <= j) - 1)
\* a check that lets every status through
AcceptAll(status) == TRUE
\* models.py lines 17-25
validate_status(status) == base_status(status) \in ALL_STATUSES
\* models.py lines 74-77: Thread.is_terminal splits the status itself
is_terminal(th) ==
    LET I == {i \in 1..(Len(th.status) - 1) : th.status[i] = " " /\ th.status[i + 1] = "("}
        base == IF I = {} THEN th.status
                ELSE SubSeq(th.status, 1, (CHOOSE i \in I : \A j \in I : i <= j) - 1)
    IN  base \in TERMINAL_STATUSES

\* crud.py lines 106-114
NewThread(tid, title) ==
    [id |-> tid, name |-> title, desc |-> EmptyStr, status |-> sIdea,
     body |-> EmptyText, notes |-> <<>>, todos |-> <<>>,
     log |-> (sToday :> <<[time |-> sNow, text |-> sCreated]>>)]

Failed(op, why) == [op |-> op, ok |-> FALSE, why |-> why, id |-> NoId, file |-> NoRecordFile]
Succeeded(op, tid, f) == [op |-> op, ok |-> TRUE, why |-> "", id |-> tid, file |-> f]

\* a function with one more argument, or another value at it
Put(fn, x, v) == [y \in DOMAIN fn \cup {x} |-> IF y = x THEN v ELSE fn[y]]
Without(fn, x) == [y \in DOMAIN fn \ {x} |-> fn[y]]

\* save_thread(thread) at file f, as one step
Saved(f, th) ==
    /\ store' = Put(store, f, serialize_thread(th))
    /\ files' = Put(files, f, [kind |-> "file", mtime |-> clock + 1])

(***************************************************************************)
(* SpecCmd: sequences of commands on a workspace                           *)
(***************************************************************************)
MaxOps == 3

CmdDirs == {<<>>, Root} \cup {Root \o <<n>> : n \in {nA, nB, nH, nArchive}}
Titles == {<<"F", "i", "x">>, <<"!">>}
NewPaths ==
    {[given |-> FALSE, s |-> EmptyStr]}
    \cup {[given |-> TRUE, s |-> e] : e \in {nA, nB, nH, nArchive}}
CmdRefs == IdPool \cup {<<"f", "i", "x">>}

InitCmd ==
    /\ dirs = CmdDirs
    /\ gitDirs = {Root, Root \o <<nB>>}
    /\ threadsDirs = {}
    /\ files = <<>>
    /\ noRead = {}
    /\ listing = "asc"
    /\ store = <<>>
    /\ born = <<>>
    /\ clock = 0
    /\ last = [op |-> "none", ok |-> TRUE, why |-> "", id |-> NoId, file |-> NoRecordFile]
    /\ CodecIdle /\ SaveIdle /\ RefIdle /\ ScopeIdle /\ FindIdle /\ GitIdle

\* crud.py lines 42-150
CmdNew(title, arg, status) ==
    /\ clock < MaxOps
    /\ clock' = clock + 1
    /\ LET sc == infer_scope(arg, Root, Root)
           slug == slugify(title)
       IN  IF ~validate_status(status)
           THEN /\ last' = Failed("new", "invalid")
                /\ UNCHANGED <<store, born, threadsDirs, files>>
           ELSE IF ~sc.ok
           THEN /\ last' = Failed("new", "sc")
                /\ UNCHANGED <<store, born, threadsDirs, files>>
           ELSE \E tid \in generate_id(find_threads(Root)) :
                  LET dir == Parent(sc.threads_dir)
                      f == [dir |-> dir, name |-> tid \o <<"-">> \o slug \o sMd]
                  IN  IF tid = NoId
                      THEN /\ last' = Failed("new", "no id")
                           /\ UNCHANGED <<store, born, threadsDirs, files>>
                      ELSE IF slug = EmptyStr
                      THEN /\ last' = Failed("new", "empty slug")
                           /\ UNCHANGED <<store, born, threadsDirs, files>>
                      ELSE IF f \in DOMAIN files
                      THEN /\ last' = Failed("new", "exists")
                           /\ threadsDirs' = threadsDirs \cup {dir}
                           /\ UNCHANGED <<store, born, files>>
                      ELSE /\ threadsDirs' = threadsDirs \cup {dir}
                           /\ Saved(f, [NewThread(tid, title) EXCEPT !.status = status])
                           /\ born' = Put(born, f, [id |-> tid, dir |-> dir, name |-> f.name, slug |-> slug])
                           /\ last' = Succeeded("new", tid, f)
    /\ UNCHANGED <<dirs, gitDirs, noRead, listing>>

\* a destination that is taken for free whatever is there
NeverTaken(dest_file, fs) == FALSE
\* lifecycle.py lines 191-192: dest_file.exists()
DestinationTaken(dest_file, fs) == dest_file \in DOMAIN fs

\* lifecycle.py lines 172-209
CmdMove(r, arg) ==
    /\ clock < MaxOps
    /\ clock' = clock + 1
    /\ LET src == find_thread_by_ref(r, AsPaths(find_threads(Root)))
           sc == infer_scope(arg, Root, Root)
       IN  IF src.kind # "found"
           THEN /\ last' = Failed("move", src.kind)
                /\ UNCHANGED <<store, born, threadsDirs, files>>
           ELSE IF ~sc.ok
           THEN /\ last' = Failed("move", "sc")
                /\ UNCHANGED <<store, born, threadsDirs, files>>
           ELSE LET src_file == AsFile(src.path)
                    dir == Parent(sc.threads_dir)
                    dest_file == [dir |-> dir, name |-> src_file.name]
                IN  /\ threadsDirs' = threadsDirs \cup {dir}
                    /\ IF DestinationTaken(dest_file, files)
                       THEN /\ last' = Failed("move", "exists")
                            /\ UNCHANGED <<store, born, files>>
                       ELSE /\ store' = Put(Without(store, src_file), dest_file, store[src_file])
                            /\ files' = Put(Without(files, src_file), dest_file, files[src_file])
                            /\ born' = Put(Without(born, src_file), dest_file,
                                           [born[src_file] EXCEPT !.dir = dir])
                            /\ last' = Succeeded("move", Stem6(src.path), dest_file)
    /\ UNCHANGED <<dirs, gitDirs, noRead, listing>>

\* crud.py lines 153-178
CmdRemove(r) ==
    /\ clock < MaxOps
    /\ clock' = clock + 1
    /\ LET src == find_thread_by_ref(r, AsPaths(find_threads(Root)))
       IN  IF src.kind # "found"
           THEN /\ last' = Failed("remove", src.kind)
                /\ UNCHANGED <<store, born, files>>
           ELSE /\ store' = Without(store, AsFile(src.path))
                /\ files' = Without(files, AsFile(src.path))
                /\ born' = Without(born, AsFile(src.path))
                /\ last' = Succeeded("remove", Stem6(src.path), AsFile(src.path))
    /\ UNCHANGED <<dirs, gitDirs, threadsDirs, noRead, listing>>

NextCmd ==
    \/ \E title \in Titles, arg \in NewPaths, status \in {sIdea, sBogus} :
          CmdNew(title, arg, status) /\ UNCHANGED <<codecVars, saveVars, refVars, scopeVars, findVars, gitVars>>
    \/ \E r \in CmdRefs, arg \in NewPaths :
          CmdMove(r, arg) /\ UNCHANGED <<codecVars, saveVars, refVars, scopeVars, findVars, gitVars>>
    \/ \E r \in CmdRefs :
          CmdRemove(r) /\ UNCHANGED <<codecVars, saveVars, refVars, scopeVars, findVars, gitVars>>

SpecCmd == InitCmd /\ [][NextCmd]_vars

\* the id prefix of a record file
IdOf(f) == SubSeq(Stem(f.name), 1, 6)
\* the record files that find_threads discovers
Discovered == Range(find_threads(Root))

FmRaises(t) ==
    /\ FmHasHeader(t)
    /\ \E i \in 2..(FmClose(t) - 1) : t[i] # EmptyStr /\ KeyEnd(t[i]) = 0
    /\ \E i \in 2..(FmClose(t) - 1) : KeyEnd(t[i]) # 0

lId == <<"i", "d", ":", " ", "a", "1", "b", "2", "c", "3">>
lName == <<"n", "a", "m", "e", ":", " ", "F", "i", "x">>
lTitle == <<"t", "i", "t", "l", "e", ":", " ", "O", "l", "d">>
lStatus == <<"s", "t", "a", "t", "u", "s", ":", " ", "a", "c", "t", "i", "v", "e">>
lBare == <<"o", "o", "p", "s">>
HeaderKinds == {"full", "noid", "title", "noname", "bad", "none"}
HeaderOf(kind) ==
    IF kind = "full" THEN <<sFence, lId, lName, lStatus, sFence, EmptyStr>>
    ELSE IF kind = "noid" THEN <<sFence, lName, lStatus, sFence, EmptyStr>>
    ELSE IF kind = "title" THEN <<sFence, lId, lTitle, sFence, EmptyStr>>
    ELSE IF kind = "noname" THEN <<sFence, lId, lStatus, sFence, EmptyStr>>
    ELSE IF kind = "bad" THEN <<sFence, lId, lBare, lName, sFence, EmptyStr>>
    ELSE <<>>

BodyBlock == <<<<"#", "#", " ", "B", "o", "d", "y">>,
      EmptyStr,
      <<"a", "b">>,
      EmptyStr>>
ExtraBlock == <<<<"#", "#", " ", "E", "x", "t", "r", "a">>,
      EmptyStr,
      <<"-", " ", "j", "u", "n", "k", " ", "<", "!", "-", "-", " ", "a", "b", "c", "d", " ", "-", "-", ">">>,
      EmptyStr>>
NotesBlock == <<<<"#", "#", " ", "N", "o", "t", "e", "s">>,
      EmptyStr,
      <<"-", " ", "n", "1", " ", "<", "!", "-", "-", " ", "a", "1", "b", "2", " ", "-", "-", ">">>,
      <<"n", "o", "t", " ", "a", " ", "n", "o", "t", "e">>,
      <<"-", " ", "n", "2", " ", "<", "!", "-", "-", " ", "z", "z", "z", "z", " ", "-", "-", ">">>,
      <<" ", " ", "-", " ", "n", "3", " ", " ", "<", "!", "-", "-", "c", "3", "d", "4", "-", "-", ">">>,
      EmptyStr>>
TodoBlock == <<<<"#", "#", " ", "T", "o", "d", "o">>,
      EmptyStr,
      <<"-", " ", "[", " ", "]", " ", "t", "1", " ", "<", "!", "-", "-", " ", "0", "0", "0", "1", " ", "-", "-", ">">>,
      <<"-", " ", "[", "X", "]", " ", "b", "a", "d", " ", "<", "!", "-", "-", " ", "0", "0", "0", "2", " ", "-", "-", ">">>,
      <<"-", " ", "[", "x", "]", " ", "t", "2", " ", "<", "!", "-", "-", " ", "0", "0", "0", "3", " ", "-", "-", ">">>,
      <<"-", " ", "t", "3", " ", "<", "!", "-", "-", " ", "0", "0", "0", "4", " ", "-", "-", ">">>,
      EmptyStr>>
LogBlock == <<<<"#", "#", " ", "L", "o", "g">>,
      EmptyStr,
      <<"-", " ", "*", "*", "0", "9", ":", "0", "0", "*", "*", " ", "e", "a", "r", "l", "y">>,
      <<"#", "#", "#", " ", "2", "0", "2", "4", "-", "0", "1", "-", "0", "2">>,
      EmptyStr,
      <<"-", " ", "*", "*", "1", "0", ":", "0", "0", "*", "*", " ", "o", "n", "e">>,
      <<"-", " ", "1", "0", ":", "3", "0", " ", "b", "a", "d">>,
      <<"#", "#", "#", " ", "2", "4", "-", "1", "-", "2">>,
      <<"-", " ", "*", "*", "1", "1", ":", "0", "0", "*", "*", " ", "t", "w", "o">>>>

\* the document of a plan: the header, then the chosen sections
Document(plan) ==
    HeaderOf(plan.header)
    \o (IF plan.body THEN BodyBlock ELSE <<>>)
    \o (IF plan.extra THEN ExtraBlock ELSE <<>>)
    \o (IF plan.notes THEN NotesBlock ELSE <<>>)
    \o (IF plan.todos THEN TodoBlock ELSE <<>>)
    \o (IF plan.log THEN LogBlock ELSE <<>>)
    \o <<EmptyStr>>

Plans ==
    [header : HeaderKinds, body : BOOLEAN, extra : BOOLEAN,
     notes : BOOLEAN, todos : BOOLEAN, log : BOOLEAN]

InitDecode ==
    /\ rec \in Plans
    /\ text = Document(rec)
    /\ decoded = <<>>
    /\ cpc = "file"
    /\ SaveIdle /\ RefIdle /\ FsIdle /\ ScopeIdle /\ FindIdle /\ CmdIdle /\ GitIdle

\* storage.py lines 135-155, on the text of the file
Decode ==
    /\ cpc = "file"
    /\ IF FmRaises(text)
       THEN decoded' = <<>> /\ cpc' = "failed"
       ELSE decoded' = load_thread(text) /\ cpc' = "loaded"
    /\ UNCHANGED <<rec, text>>
    /\ UNCHANGED <<saveVars, refVars, fsVars, scopeVars, findVars, cmdVars, gitVars>>

NextDecode == Decode

SpecDecode == InitDecode /\ [][NextDecode]_vars

\* C18: load_thread returns no record for a file whose header lacks id, or
\* lacks both name and title
C18_RequiredKeys ==
    cpc = "loaded" =>
        /\ kId \in DOMAIN FmMetadata(text)
        /\ (kName \in DOMAIN FmMetadata(text) \/ kTitle \in DOMAIN FmMetadata(text))

\* what the sections of a plan hold that is well formed, in document order
GoodNotes ==
    <<[text |-> <<"n", "1">>, hash |-> <<"a", "1", "b", "2">>], [text |-> <<"n", "3">>, hash |-> <<"c", "3", "d", "4">>]>>
GoodTodos ==
    <<[text |-> <<"t", "1">>, hash |-> <<"0", "0", "0", "1">>, checked |-> FALSE],
      [text |-> <<"t", "2">>, hash |-> <<"0", "0", "0", "3">>, checked |-> TRUE]>>
GoodLog ==
    (<<"2", "0", "2", "4", "-", "0", "1", "-", "0", "2">> :> <<[time |-> <<"1", "0", ":", "0", "0">>, text |-> <<"o", "n", "e">>], [time |-> <<"1", "1", ":", "0", "0">>, text |-> <<"t", "w", "o">>]>>)

\* C19: with a header that parses, load_thread does not fail whatever the
\* sections hold, and returns the well-formed notes, todos and log
\* entries in document order: the unrecognized section, the lines that do
\* not match the grammar and the log entry above the first date heading
\* are left out
C19_BestEffort ==
    /\ cpc = "failed" => rec.header = "bad"
    /\ cpc = "loaded" =>
          /\ decoded.body = (IF rec.body THEN <<<<"a", "b">>>> ELSE EmptyText)
          /\ decoded.notes = (IF rec.notes THEN GoodNotes ELSE <<>>)
          /\ decoded.todos = (IF rec.todos THEN GoodTodos ELSE <<>>)
          /\ decoded.log = (IF rec.log THEN GoodLog ELSE <<>>)

\* a document with every section, the unrecognized one included, was loaded
C19_Witness ==
    /\ cpc = "loaded"
    /\ rec.header = "full"
    /\ rec.body /\ rec.extra /\ rec.notes /\ rec.todos /\ rec.log
    /\ Len(decoded.notes) = 2 /\ Len(decoded.todos) = 2
    /\ Len(decoded.log[<<"2", "0", "2", "4", "-", "0", "1", "-", "0", "2">>]) = 2

(***************************************************************************)
(* SpecEdit: the commands that rewrite a record                            *)
(***************************************************************************)
sResolvedDot == <<"R", "e", "s", "o", "l", "v", "e", "d", ".">>
sReopenedDot == <<"R", "e", "o", "p", "e", "n", "e", "d", ".">>
sAddedNote == <<"A", "d", "d", "e", "d", " ", "n", "o", "t", "e", ":", " ">>
sEditedNote == <<"E", "d", "i", "t", "e", "d", " ", "n", "o", "t", "e", " ">>
sRemovedNote == <<"R", "e", "m", "o", "v", "e", "d", " ", "n", "o", "t", "e", " ">>

\* an entry put at the end of the date's list
AppendEntryAt(th, today, timestamp, entry_text) ==
    LET entry == [time |-> timestamp, text |-> entry_text]
    IN  [th EXCEPT !.log =
            IF today \in DOMAIN th.log
            THEN [th.log EXCEPT ![today] = @ \o <<entry>>]
            ELSE Put(th.log, today, <<entry>>)]
\* sections.py lines 19-29 (lifecycle.py lines 80-89 are the same), with
\* the date and time that datetime.now() gave
add_log_entry_at(th, today, timestamp, entry_text) ==
    LET entry == [time |-> timestamp, text |-> entry_text]
    IN  [th EXCEPT !.log =
            IF today \in DOMAIN th.log
            THEN [th.log EXCEPT ![today] = <<entry>> \o @]
            ELSE Put(th.log, today, <<entry>>)]
\* the same at the one date and time of the command specifications
add_log_entry(th, entry_text) == add_log_entry_at(th, sToday, sNow, entry_text)

\* sections.py lines 13-16: four hex digits of a digest of text and time
HashPool == {<<"a", "1", "b", "2">>, <<"c", "3", "d", "4">>}

\* the file a command finds for a reference
FoundFor(r) == find_thread_by_ref(r, AsPaths(find_threads(Root)))

\* a file name made again from the record's id and present name
RenamedTarget(f, th) ==
    [dir |-> f.dir, name |-> th.id \o <<"-">> \o slugify(th.name) \o sMd]
\* thread.file_path of a loaded record: the path it was loaded from
SaveTarget(f, th) == f

\* load_thread(file_path), the change, save_thread(thread)
Rewrite(op, f, th) ==
    /\ Saved(SaveTarget(f, th), th)
    /\ last' = Succeeded(op, th.id, f)
\* a failure raised after the files were cut short
FailedAfterWrite(op, why) ==
    /\ last' = Failed(op, why)
    /\ store' = [f \in DOMAIN store |-> EmptyText]
    /\ UNCHANGED files
\* an exception raised before save_thread
NotDone(op, why) ==
    /\ last' = Failed(op, why)
    /\ UNCHANGED <<store, files>>
Step ==
    /\ clock < MaxOps
    /\ clock' = clock + 1
    /\ UNCHANGED <<dirs, gitDirs, threadsDirs, noRead, listing, born>>

\* crud.py lines 181-213
CmdUpdate(r, title, desc) ==
    /\ Step
    /\ IF ~title.given /\ ~desc.given THEN NotDone("update", "nothing")
       ELSE \E src \in {FoundFor(r)} :
                IF src.kind # "found" THEN NotDone("update", src.kind)
                ELSE LET f == AsFile(src.path)
                     IN  \E th \in {load_thread(store[f])} :
                           Rewrite("update", f,
                             [th EXCEPT !.name = IF title.given THEN title.s ELSE @,
                                        !.desc = IF desc.given THEN desc.s ELSE @])

\* lifecycle.py lines 92-117
CmdStatus(r, new_status) ==
    /\ Step
    /\ IF ~validate_status(new_status) THEN NotDone("status", "invalid")
       ELSE \E src \in {FoundFor(r)} :
                IF src.kind # "found" THEN NotDone("status", src.kind)
                ELSE LET f == AsFile(src.path)
                     IN  \E th \in {load_thread(store[f])} :
                           Rewrite("status", f, [th EXCEPT !.status = new_status])

\* lifecycle.py lines 120-139
CmdResolve(r) ==
    /\ Step
    /\ \E src \in {FoundFor(r)} :
           IF src.kind # "found" THEN NotDone("resolve", src.kind)
           ELSE LET f == AsFile(src.path)
                IN  \E th \in {load_thread(store[f])} :
                      Rewrite("resolve", f,
                        add_log_entry([th EXCEPT !.status = <<"r", "e", "s", "o", "l", "v", "e", "d">>], sResolvedDot))

\* lifecycle.py lines 142-169
CmdReopen(r, new_status) ==
    /\ Step
    /\ IF ~validate_status(new_status) THEN NotDone("reopen", "invalid")
       ELSE \E src \in {FoundFor(r)} :
                IF src.kind # "found" THEN NotDone("reopen", src.kind)
                ELSE LET f == AsFile(src.path)
                     IN  \E th \in {load_thread(store[f])} :
                           Rewrite("reopen", f,
                             add_log_entry([th EXCEPT !.status = new_status], sReopenedDot))

\* sections.py lines 32-76; content is what stdin holds
CmdBody(r, mode, content) ==
    /\ Step
    /\ \E src \in {FoundFor(r)} :
           IF src.kind # "found" THEN NotDone("body", src.kind)
           ELSE IF content = EmptyText THEN NotDone("body", "no content")
           ELSE LET f == AsFile(src.path)
                IN  \E th \in {load_thread(store[f])} :
                      Rewrite("body", f,
                        [th EXCEPT !.body =
                            IF mode = "set" \/ th.body = EmptyText
                            THEN StripText(content)
                            ELSE th.body \o <<EmptyStr>> \o StripText(content)])

\* sections.py lines 79-143
CmdNote(r, action, text_or_hash, new_text) ==
    /\ Step
    /\ \E src \in {FoundFor(r)} :
           IF src.kind # "found" THEN NotDone("note", src.kind)
           ELSE LET f == AsFile(src.path)
                IN  \E th \in {load_thread(store[f])} :
                      LET hit == {i \in 1..Len(th.notes) : StartsWith(th.notes[i].hash, text_or_hash)}
                          first == CHOOSE i \in hit : \A j \in hit : i <= j
                          keep(n) == ~StartsWith(n.hash, text_or_hash)
                      IN  IF action = "add"
                          THEN \E note_hash \in HashPool :
                                 Rewrite("note", f,
                                     add_log_entry(
                                         [th EXCEPT !.notes = <<[text |-> text_or_hash, hash |-> note_hash]>> \o @],
                                         sAddedNote \o text_or_hash))
                          ELSE IF action = "edit"
                          THEN IF ~new_text.given THEN NotDone("note", "no new text")
                               ELSE IF hit = {} THEN NotDone("note", "no note")
                               ELSE Rewrite("note", f,
                                        add_log_entry([th EXCEPT !.notes[first].text = new_text.s],
                                                      sEditedNote \o text_or_hash))
                          ELSE IF action = "remove"
                          THEN IF hit = {} THEN NotDone("note", "no note")
                               ELSE Rewrite("note", f,
                                        add_log_entry([th EXCEPT !.notes = SelectSeq(@, keep)],
                                                      sRemovedNote \o text_or_hash))
                          ELSE NotDone("note", "unknown action")

\* sections.py lines 146-208
CmdTodo(r, action, item_or_hash) ==
    /\ Step
    /\ \E src \in {FoundFor(r)} :
           IF src.kind # "found" THEN NotDone("todo", src.kind)
           ELSE LET f == AsFile(src.path)
                IN  \E th \in {load_thread(store[f])} :
                      LET hit(c) == {i \in 1..Len(th.todos) :
                                       /\ StartsWith(th.todos[i].hash, item_or_hash)
                                       /\ th.todos[i].checked = c}
                          first(c) == CHOOSE i \in hit(c) : \A j \in hit(c) : i <= j
                          keep(t) == ~StartsWith(t.hash, item_or_hash)
                      IN  IF action = "add"
                          THEN \E item_hash \in HashPool :
                                 Rewrite("todo", f,
                                     [th EXCEPT !.todos =
                                         <<[text |-> item_or_hash, hash |-> item_hash, checked |-> FALSE]>> \o @])
                          ELSE IF action \in {"check", "complete", "done"}
                          THEN IF hit(FALSE) = {} THEN NotDone("todo", "no item")
                               ELSE Rewrite("todo", f, [th EXCEPT !.todos[first(FALSE)].checked = TRUE])
                          ELSE IF action = "uncheck"
                          THEN IF hit(TRUE) = {} THEN NotDone("todo", "no item")
                               ELSE Rewrite("todo", f, [th EXCEPT !.todos[first(TRUE)].checked = FALSE])
                          ELSE IF action = "remove"
                          THEN IF hit(TRUE) \cup hit(FALSE) = {} THEN NotDone("todo", "no item")
                               ELSE Rewrite("todo", f, [th EXCEPT !.todos = SelectSeq(@, keep)])
                          ELSE NotDone("todo", "unknown action")

\* sections.py lines 213-246
CmdLog(r, entry) ==
    /\ Step
    /\ \E src \in {FoundFor(r)} :
           IF src.kind # "found" THEN NotDone("log", src.kind)
           ELSE IF entry = EmptyStr THEN NotDone("log", "no entry")
           ELSE LET f == AsFile(src.path)
                IN  \E th \in {load_thread(store[f])} :
                      Rewrite("log", f, add_log_entry(th, entry))

EditRefs == {<<"a", "a", "a", "a", "a", "a">>, <<"f", "i", "x">>}
NewTitles == {[given |-> FALSE, s |-> EmptyStr], [given |-> TRUE, s |-> <<"N", "e", "w", " ", "n", "a", "m", "e">>]}
NewDescs == {[given |-> FALSE, s |-> EmptyStr], [given |-> TRUE, s |-> <<"d">>]}
NewStatuses == {<<"a", "c", "t", "i", "v", "e">>, <<"b", "l", "o", "c", "k", "e", "d", " ", "(", "x", ")">>, <<"b", "o", "g", "u", "s">>}
BodyInputs == {<<"set", <<<<"a", "b">>>>>>, <<"append", <<<<"c", "d">>>>>>, <<"set", EmptyText>>}
NoText == [given |-> FALSE, s |-> EmptyStr]
NoteInputs ==
    {<<"add", <<"n", "1">>, NoText>>,
     <<"edit", <<"a", "1">>, [given |-> TRUE, s |-> <<"n", "2">>]>>,
     <<"edit", <<"a", "1">>, NoText>>,
     <<"remove", <<"c", "3">>, NoText>>,
     <<"drop", <<"a", "1">>, NoText>>}
TodoInputs == {<<"add", <<"t", "1">>>>, <<"check", <<"a", "1">>>>, <<"uncheck", <<"a", "1">>>>, <<"remove", <<"c", "3">>>>, <<"drop", <<"a", "1">>>>}
LogInputs == {<<"o", "n", "e">>, EmptyStr}
Quiet == UNCHANGED <<codecVars, saveVars, refVars, scopeVars, findVars, gitVars>>

NextEdit ==
    \/ \E title \in Titles, arg \in {[given |-> FALSE, s |-> EmptyStr], [given |-> TRUE, s |-> nA]},
          status \in {sIdea, sBogus} :
          CmdNew(title, arg, status) /\ Quiet
    \/ \E r \in EditRefs, title \in NewTitles, desc \in NewDescs : CmdUpdate(r, title, desc) /\ Quiet
    \/ \E r \in EditRefs, st \in NewStatuses : CmdStatus(r, st) /\ Quiet
    \/ \E r \in EditRefs : CmdResolve(r) /\ Quiet
    \/ \E r \in EditRefs, st \in NewStatuses : CmdReopen(r, st) /\ Quiet
    \/ \E r \in EditRefs, b \in BodyInputs : CmdBody(r, b[1], b[2]) /\ Quiet
    \/ \E r \in EditRefs, n \in NoteInputs : CmdNote(r, n[1], n[2], n[3]) /\ Quiet
    \/ \E r \in EditRefs, t \in TodoInputs : CmdTodo(r, t[1], t[2]) /\ Quiet
    \/ \E r \in EditRefs, e \in LogInputs : CmdLog(r, e) /\ Quiet

SpecEdit == InitCmd /\ [][NextEdit]_vars

Edits == {"update", "status", "resolve", "reopen", "body", "note", "todo", "log"}

\* C20: after cmd_update, cmd_status, cmd_resolve, cmd_reopen, cmd_body,
\* cmd_note, cmd_todo and cmd_log in any order, every record is the file
\* it was created as, <id>-<slug>.md with the slug of the title given at
\* creation, its header holds the id given at creation, and no other file
\* has been written: the command rewrote the file it found
C20_PathAndIdFixed ==
    /\ DOMAIN store = DOMAIN born
    /\ DOMAIN files = DOMAIN born
    /\ \A f \in DOMAIN born :
          /\ f.dir = born[f].dir
          /\ f.name = born[f].name
          /\ f.name = born[f].id \o <<"-">> \o born[f].slug \o sMd
          /\ load_thread(store[f]).id = born[f].id
    /\ (last.op \in Edits /\ last.ok) =>
          /\ last.file \in DOMAIN born
          /\ files[last.file].mtime = clock
          /\ last.id = born[last.file].id

\* a record was renamed by cmd_update and then edited again: its name no
\* longer gives the slug of its file
C20_Witness ==
    /\ last.op \in Edits \ {"update"} /\ last.ok
    /\ load_thread(store[last.file]).name = <<"N", "e", "w", " ", "n", "a", "m", "e">>
    /\ slugify(load_thread(store[last.file]).name) # born[last.file].slug
    /\ clock = MaxOps

(***************************************************************************)
(* SpecItems: notes and todos addressed by a hash token                    *)
(***************************************************************************)
MaxItems == 2

\* notes and todos as earlier additions left them; sections.py lines 13-16
\* give an item four hex digits of a digest, so two items can share a hash
ItemNotes ==
    {[text |-> <<"n", "1">>, hash |-> <<"a", "1", "b", "2">>], [text |-> <<"n", "2">>, hash |-> <<"a", "1", "b", "2">>],
     [text |-> <<"n", "3">>, hash |-> <<"c", "3", "d", "4">>]}
ItemTodos ==
    {[text |-> <<"t", "1">>, hash |-> <<"a", "1", "b", "2">>, checked |-> FALSE],
     [text |-> <<"t", "2">>, hash |-> <<"a", "1", "b", "2">>, checked |-> TRUE],
     [text |-> <<"t", "3">>, hash |-> <<"c", "3", "d", "4">>, checked |-> FALSE]}
ListsOver(S) == UNION {[1..n -> S] : n \in 0..MaxItems}

ItemId == <<"a", "a", "a", "a", "a", "a">>
ItemSlug == <<"f", "i", "x">>
ItemFile == [dir |-> Root, name |-> ItemId \o <<"-">> \o ItemSlug \o sMd]
Tokens == {<<"a", "1">>, <<"c", "3", "d", "4">>, <<"f", "f">>}
ItemTexts == {[given |-> TRUE, s |-> <<"n", "9">>], NoText}

\* a workspace with one record, after cmd_new and additions of notes or todos
InitItems ==
    /\ dirs = CmdDirs
    /\ gitDirs = {Root, Root \o <<nB>>}
    /\ threadsDirs = {Root}
    /\ noRead = {}
    /\ listing = "asc"
    /\ \E ns \in ListsOver(ItemNotes), ts \in ListsOver(ItemTodos) :
          /\ ns = <<>> \/ ts = <<>>
          /\ store = (ItemFile :> serialize_thread(
                         [NewThread(ItemId, <<"F", "i", "x">>) EXCEPT !.notes = ns, !.todos = ts]))
    /\ files = (ItemFile :> [kind |-> "file", mtime |-> 0])
    /\ born = (ItemFile :> [id |-> ItemId, dir |-> Root, name |-> ItemFile.name, slug |-> ItemSlug])
    /\ clock = 0
    /\ last = [op |-> "none", ok |-> TRUE, why |-> "", id |-> NoId, file |-> NoRecordFile]
    /\ CodecIdle /\ SaveIdle /\ RefIdle /\ ScopeIdle /\ FindIdle /\ GitIdle

MaxItemOps == 2
ItemNoteInputs ==
    {<<"add", <<"n", "9">>, NoText>>}
    \cup {<<"edit", tok, new>> : tok \in Tokens, new \in ItemTexts}
    \cup {<<"remove", tok, NoText>> : tok \in Tokens}
ItemTodoInputs ==
    {<<"add", <<"t", "9">>>>}
    \cup {<<action, tok>> : action \in {"check", "uncheck", "remove"}, tok \in Tokens}

NextItems ==
    \/ \E n \in ItemNoteInputs :
          clock < MaxItemOps /\ CmdNote(ItemId, n[1], n[2], n[3]) /\ Quiet
    \/ \E t \in ItemTodoInputs :
          clock < MaxItemOps /\ CmdTodo(ItemId, t[1], t[2]) /\ Quiet

SpecItems == InitItems /\ [][NextItems]_vars

\* the first entry of a list whose hash starts with the token, 0 if none
FirstHit(items, tok) ==
    LET I == {i \in 1..Len(items) : StartsWith(items[i].hash, tok)}
    IN  IF I = {} THEN 0 ELSE CHOOSE i \in I : \A j \in I : i <= j
NotesIn(st) == load_thread(st[ItemFile]).notes
TodosIn(st) == load_thread(st[ItemFile]).todos

\* C21: a successful edit or remove of a note, or remove of a todo, by a
\* hash token changes the first entry whose hash matches the token and
\* leaves every other entry as it was, a later entry with a matching hash
\* included
C21_FirstMatchOnly ==
    [][\A tok \in Tokens :
          /\ \A new \in ItemTexts :
                (CmdNote(ItemId, "edit", tok, new) /\ last'.ok) =>
                    NotesIn(store') =
                        [NotesIn(store) EXCEPT ![FirstHit(NotesIn(store), tok)].text = new.s]
          /\ (CmdNote(ItemId, "remove", tok, NoText) /\ last'.ok) =>
                NotesIn(store') = DropAt(NotesIn(store), FirstHit(NotesIn(store), tok))
          /\ (CmdTodo(ItemId, "remove", tok) /\ last'.ok) =>
                TodosIn(store') = DropAt(TodosIn(store), FirstHit(TodosIn(store), tok))]_vars

(***************************************************************************)
(* SpecGit: staging, committing and the cached status map                  *)
(***************************************************************************)
MaxVersion == 2
GitPaths == {"p", "q"}
NoCache == [set |-> FALSE, map |-> <<>>]
NoAnswer == [op |-> "none", path |-> "", value |-> FALSE, commit |-> FALSE]

\* git status --porcelain: the index against the last commit, and the
\* working tree against the index; a file in neither index nor commit is
\* listed as untracked, after the tracked paths
IndexStatus(path) ==
    IF index[path] = head[path] THEN " "
    ELSE IF head[path] = 0 THEN "A"
    ELSE IF index[path] = 0 THEN "D"
    ELSE "M"
WorktreeStatus(path) ==
    IF work[path] = index[path] THEN " "
    ELSE IF index[path] = 0 THEN "?"
    ELSE IF work[path] = 0 THEN "D"
    ELSE "M"

\* git.py lines 96-108
EffectiveStatus(path) ==
    IF WorktreeStatus(path) = "?" THEN "?"
    ELSE IF IndexStatus(path) = "A" THEN "A"
    ELSE IF IndexStatus(path) = "D" \/ WorktreeStatus(path) = "D" THEN "D"
    ELSE IF IndexStatus(path) = "M" \/ WorktreeStatus(path) = "M" THEN "M"
    ELSE "none"
\* git.py lines 79-108: the map parsed from a run of git status
StatusNow ==
    [path \in {f \in GitPaths : EffectiveStatus(f) # "none"} |-> EffectiveStatus(path)]

\* what the status is read from when nothing is ever cached
AlwaysRefresh(refresh) == StatusNow
\* git.py lines 60-111
get_all_git_status(refresh) ==
    IF ~refresh /\ _status_cache.set THEN _status_cache.map ELSE StatusNow
Cached == _status_cache' = [set |-> TRUE, map |-> get_all_git_status(FALSE)]

\* git.py lines 122-139, 142-151, 154-181 on a status map
is_tracked(file, status_map) ==
    IF file \in DOMAIN status_map THEN status_map[file] # "?" ELSE index[file] # 0
is_modified(file, status_map) == file \in DOMAIN status_map
get_file_status(file, status_map) ==
    IF file \notin DOMAIN status_map
    THEN IF head[file] # 0
         THEN (IF work[file] # 0 THEN "modified" ELSE "deleted")
         ELSE "added"
    ELSE IF status_map[file] = "?" THEN "untracked"
    ELSE IF status_map[file] = "A" THEN "added"
    ELSE IF status_map[file] = "D" THEN "deleted"
    ELSE "modified"

\* a removal staged as git rm would: the index drops a path that is gone
StageAlways(file, ix, wk) == [ix EXCEPT ![file] = wk[file]]
\* git.py lines 24-37: a path that does not exist is skipped
git_add(file, ix, wk) ==
    IF wk[file] = 0 THEN ix ELSE [ix EXCEPT ![file] = wk[file]]
\* git.py lines 40-45: git commit -m fails when nothing is staged
git_commit(ix, hd) == [ok |-> ix # hd, head |-> IF ix # hd THEN ix ELSE hd]

InitGit ==
    /\ head \in [GitPaths -> 0..1]
    /\ index = head
    /\ work = head
    /\ _status_cache = NoCache
    /\ answer = NoAnswer
    /\ CodecIdle /\ SaveIdle /\ RefIdle /\ FsIdle /\ ScopeIdle /\ FindIdle /\ CmdIdle

\* storage.py lines 240-259: a record file is written (created or changed)
SaveRecord(file) ==
    /\ work[file] < MaxVersion
    /\ work' = [work EXCEPT ![file] = @ + 1]
    /\ answer' = [op |-> "save", path |-> file, value |-> TRUE, commit |-> FALSE]
    /\ UNCHANGED <<head, index, _status_cache>>

IsTracked(file) ==
    /\ answer' = [op |-> "is_tracked", path |-> file,
                  value |-> is_tracked(file, get_all_git_status(FALSE)), commit |-> FALSE]
    /\ Cached
    /\ UNCHANGED <<head, index, work>>
IsModified(file) ==
    /\ answer' = [op |-> "is_modified", path |-> file,
                  value |-> is_modified(file, get_all_git_status(FALSE)), commit |-> FALSE]
    /\ Cached
    /\ UNCHANGED <<head, index, work>>
GetFileStatus(file) ==
    /\ answer' = [op |-> "get_file_status", path |-> file,
                  value |-> get_file_status(file, get_all_git_status(FALSE)), commit |-> FALSE]
    /\ Cached
    /\ UNCHANGED <<head, index, work>>

\* lifecycle.py lines 212-257, for one reference
CmdCommit(file) ==
    /\ work[file] # 0
    /\ Cached
    /\ UNCHANGED work
    /\ IF ~is_modified(file, get_all_git_status(FALSE))
       THEN /\ answer' = [op |-> "commit", path |-> file, value |-> FALSE, commit |-> FALSE]
            /\ UNCHANGED <<head, index>>
       ELSE /\ index' = git_add(file, index, work)
            /\ head' = git_commit(index', head).head
            /\ answer' = [op |-> "commit", path |-> file,
                          value |-> git_commit(index', head).ok, commit |-> TRUE]

\* crud.py lines 153-178: is_tracked, unlink, auto_commit_remove
RemoveRecord(file, do_commit) ==
    /\ work[file] # 0
    /\ Cached
    /\ work' = [work EXCEPT ![file] = 0]
    /\ LET was_tracked == is_tracked(file, get_all_git_status(FALSE))
       IN  IF was_tracked /\ do_commit
           THEN /\ index' = git_add(file, index, work')
                /\ head' = git_commit(index', head).head
                /\ answer' = [op |-> "remove", path |-> file,
                              value |-> git_commit(index', head).ok, commit |-> TRUE]
           ELSE /\ answer' = [op |-> "remove", path |-> file, value |-> TRUE, commit |-> FALSE]
                /\ UNCHANGED <<head, index>>

\* lifecycle.py lines 172-209: rename, then git_add of both paths and commit
MoveRecord(src_file, dest_file, do_commit) ==
    /\ work[src_file] # 0
    /\ src_file # dest_file
    /\ UNCHANGED _status_cache
    /\ IF work[dest_file] # 0
       THEN /\ answer' = [op |-> "move", path |-> src_file, value |-> FALSE, commit |-> FALSE]
            /\ UNCHANGED <<head, index, work>>
       ELSE /\ work' = [work EXCEPT ![dest_file] = work[src_file], ![src_file] = 0]
            /\ IF do_commit
               THEN /\ index' = git_add(dest_file, git_add(src_file, index, work'), work')
                    /\ head' = git_commit(index', head).head
                    /\ answer' = [op |-> "move", path |-> src_file,
                                  value |-> git_commit(index', head).ok, commit |-> TRUE]
               ELSE /\ answer' = [op |-> "move", path |-> src_file, value |-> TRUE, commit |-> FALSE]
                    /\ UNCHANGED <<head, index>>

Still == UNCHANGED <<codecVars, saveVars, refVars, fsVars, scopeVars, findVars, cmdVars>>

NextGit ==
    \/ \E file \in GitPaths : SaveRecord(file) /\ Still
    \/ \E file \in GitPaths : IsTracked(file) /\ Still
    \/ \E file \in GitPaths : IsModified(file) /\ Still
    \/ \E file \in GitPaths : GetFileStatus(file) /\ Still
    \/ \E file \in GitPaths : CmdCommit(file) /\ Still
    \/ \E file \in GitPaths, do_commit \in BOOLEAN : RemoveRecord(file, do_commit) /\ Still
    \/ \E src_file \in GitPaths, dest_file \in GitPaths, do_commit \in BOOLEAN :
          MoveRecord(src_file, dest_file, do_commit) /\ Still

SpecGit == InitGit /\ [][NextGit]_vars

\* C22: what is_tracked, is_modified and get_file_status answer is what
\* the state of the repository gives at the time of the call, whatever
\* this process staged, committed, wrote, moved or deleted before it
C22_NoStaleAnswer ==
    /\ answer.op = "is_tracked" => answer.value = is_tracked(answer.path, StatusNow)
    /\ answer.op = "is_modified" => answer.value = is_modified(answer.path, StatusNow)
    /\ answer.op = "get_file_status" => answer.value = get_file_status(answer.path, StatusNow)

\* C28: after cmd_remove of a tracked record with do_commit, and after
\* cmd_move with do_commit, the commit just made no longer holds the file
\* at the source path
C28_RemovalCommitted ==
    (answer.op \in {"remove", "move"} /\ answer.commit) => head[answer.path] = 0

\* the last command wrote no file: a file written by the command that
\* made this state has the time of this state
NothingWritten == \A f \in DOMAIN files : files[f].mtime # clock

\* C23: cmd_new, cmd_status and cmd_reopen reject a status whose base
\* form is outside the closed set before they create or change a file,
\* so every record file holds a status whose base form is in the set
C23_StatusClosed ==
    /\ \A f \in DOMAIN store : base_status(load_thread(store[f]).status) \in ALL_STATUSES
    /\ (last.op \in {"new", "status", "reopen"} /\ ~last.ok /\ last.why = "invalid") =>
          NothingWritten

\* a status with a suffix was accepted and written
C23_Witness ==
    /\ last.op \in {"status", "reopen"} /\ last.ok
    /\ load_thread(store[last.file]).status = <<"b", "l", "o", "c", "k", "e", "d", " ", "(", "x", ")">>
    /\ files[last.file].mtime = clock

(***************************************************************************)
(* SpecStatus: base_status and is_terminal on statuses with a suffix       *)
(***************************************************************************)
StatusBases ==
    ALL_STATUSES \cup {<<"b", "o", "g", "u", "s">>, <<"r", "e", "s", "o", "l", "v", "e", "d", "(", "x", ")">>, <<"d", "o", "n", "e">>, EmptyStr}
StatusSuffixes ==
    {EmptyStr, <<" ", "(", "x", ")">>, <<" ", "(", "w", "a", "i", "t", "i", "n", "g", " ", "o", "n", " ", "r", "e", "v", "i", "e", "w", ")">>, <<" ", "(", "a", " ", "(", "b", ")", ")">>, <<" ", "(", ")">>}

InitStatus ==
    /\ rec \in [base : StatusBases, suffix : StatusSuffixes]
    /\ text = rec.base \o rec.suffix
    /\ decoded = <<>>
    /\ cpc = "status"
    /\ SaveIdle /\ RefIdle /\ FsIdle /\ ScopeIdle /\ FindIdle /\ CmdIdle /\ GitIdle

\* models.py lines 12-14 and 74-77 applied to the status
Classify ==
    /\ cpc = "status"
    /\ decoded' = [base |-> base_status(text),
                   terminal |-> is_terminal([status |-> text]),
                   valid |-> validate_status(text)]
    /\ cpc' = "classified"
    /\ UNCHANGED <<rec, text>>
    /\ UNCHANGED <<saveVars, refVars, fsVars, scopeVars, findVars, cmdVars, gitVars>>

NextStatus == Classify

SpecStatus == InitStatus /\ [][NextStatus]_vars

\* C24: base_status gives the status without its parenthetical suffix, a
\* record is terminal exactly when that base is in the terminal set,
\* which shares no status with the active set, and the suffix does not
\* change whether the record is terminal
C24_BaseStatus ==
    /\ ACTIVE_STATUSES \cap TERMINAL_STATUSES = {}
    /\ cpc = "classified" =>
          /\ decoded.base = rec.base
          /\ decoded.terminal = (rec.base \in TERMINAL_STATUSES)
          /\ decoded.terminal = is_terminal([status |-> rec.base])
          /\ rec.base \in ACTIVE_STATUSES => ~decoded.terminal

\* "blocked (waiting on review)" was classified: base "blocked", not terminal
C24_Witness ==
    /\ cpc = "classified"
    /\ text = <<"b", "l", "o", "c", "k", "e", "d", " ", "(", "w", "a", "i", "t", "i", "n", "g", " ", "o", "n", " ", "r", "e", "v", "i", "e", "w", ")">>
    /\ decoded.base = <<"b", "l", "o", "c", "k", "e", "d">>
    /\ ~decoded.terminal
    /\ decoded.valid

(***************************************************************************)
(* SpecLog: additions to the log of one record over time                   *)
(***************************************************************************)
MaxAdds == 3
Days == <<sToday, <<"2", "0", "2", "4", "-", "0", "1", "-", "1", "0">>>>
Minutes == <<sNow, <<"1", "0", ":", "0", "1">>>>
LogTexts == {<<"o", "n", "e">>, <<"t", "w", "o">>}

\* the file after cmd_new at the first day and minute; rec is the clock
\* (indices into Days and Minutes), decoded the additions made so far
InitLog ==
    /\ text = serialize_thread(NewThread(ItemId, <<"F", "i", "x">>))
    /\ rec = [day |-> 1, minute |-> 1]
    /\ decoded = <<[day |-> 1, minute |-> 1, text |-> sCreated]>>
    /\ cpc = "log"
    /\ SaveIdle /\ RefIdle /\ FsIdle /\ ScopeIdle /\ FindIdle /\ CmdIdle /\ GitIdle

\* time does not run backwards, and the number of additions is bounded
Later(at) ==
    /\ Len(decoded) <= MaxAdds
    /\ at \in [day : 1..Len(Days), minute : 1..Len(Minutes)]
    /\ at.day > rec.day \/ (at.day = rec.day /\ at.minute >= rec.minute)

\* add_log_entry and save_thread at the time at, on the record loaded
Logged(at, th, entry_text) ==
    /\ text' = serialize_thread(add_log_entry_at(th, Days[at.day], Minutes[at.minute], entry_text))
    /\ decoded' = Append(decoded, [day |-> at.day, minute |-> at.minute, text |-> entry_text])
    /\ rec' = at
    /\ UNCHANGED cpc
    /\ UNCHANGED <<saveVars, refVars, fsVars, scopeVars, findVars, cmdVars, gitVars>>

\* sections.py lines 213-246
LogAt(at, entry) ==
    /\ Later(at)
    /\ \E th \in {load_thread(text)} : Logged(at, th, entry)
\* sections.py lines 94-98, 130-135: the automatic entry of an added note
NoteAt(at, note_text, note_hash) ==
    /\ Later(at)
    /\ \E th \in {load_thread(text)} :
          Logged(at, [th EXCEPT !.notes = <<[text |-> note_text, hash |-> note_hash]>> \o @],
                 sAddedNote \o note_text)
\* lifecycle.py lines 120-139
ResolveAt(at) ==
    /\ Later(at)
    /\ \E th \in {load_thread(text)} :
          Logged(at, [th EXCEPT !.status = <<"r", "e", "s", "o", "l", "v", "e", "d">>], sResolvedDot)
\* lifecycle.py lines 142-169
ReopenAt(at) ==
    /\ Later(at)
    /\ \E th \in {load_thread(text)} :
          Logged(at, [th EXCEPT !.status = sActive], sReopenedDot)

NextLog ==
    \/ \E at \in [day : 1..Len(Days), minute : 1..Len(Minutes)], entry \in LogTexts : LogAt(at, entry)
    \/ \E at \in [day : 1..Len(Days), minute : 1..Len(Minutes)] : NoteAt(at, <<"n", "1">>, <<"a", "1", "b", "2">>)
    \/ \E at \in [day : 1..Len(Days), minute : 1..Len(Minutes)] : ResolveAt(at)
    \/ \E at \in [day : 1..Len(Days), minute : 1..Len(Minutes)] : ReopenAt(at)

SpecLog == InitLog /\ [][NextLog]_vars

\* the additions of a day, the last one first
AddedOn(day) ==
    LET on == SelectSeq(decoded, LAMBDA a : a.day = day)
    IN  [i \in 1..Len(on) |->
            [time |-> Minutes[on[Len(on) + 1 - i].minute], text |-> on[Len(on) + 1 - i].text]]
\* the dates of the date headings of a text, in the order of the text
HeadingDates(t) ==
    LET hs == SelectSeq(t, LOG_DATE_RE)
    IN  [i \in 1..Len(hs) |-> DateOf(hs[i])]

\* C25: each date of the saved log lists the entries added on that date,
\* the one added last first and the earlier ones in the order they had,
\* and the date headings of the file run from the latest date to the
\* earliest
C25_NewestFirst ==
    cpc = "log" =>
        \A log \in {load_thread(text).log} :
            /\ DOMAIN log = {Days[a.day] : a \in Range(decoded)}
            /\ \A day \in 1..Len(Days) :
                  Days[day] \in DOMAIN log => log[Days[day]] = AddedOn(day)
            /\ HeadingDates(text) = SortedDesc(DOMAIN log)

\* three entries of the first day and one of the second have been saved
C25_Witness ==
    /\ cpc = "log"
    /\ Len(AddedOn(1)) = 3
    /\ Len(AddedOn(2)) = 1
    /\ AddedOn(1)[3].text = sCreated
    /\ AddedOn(1)[1].text # AddedOn(1)[2].text

\* C26: a cmd_note, cmd_todo, cmd_status, cmd_reopen, cmd_update,
\* cmd_body or cmd_log that fails leaves every record file as it was: the
\* failure comes before save_thread
C26_FailureWritesNothing ==
    [][(last'.op \in Edits /\ ~last'.ok) => (store' = store /\ files' = files)]_vars

\* commands failed on an existing record for each of the reasons
C26_Witness ==
    /\ DOMAIN store # {}
    /\ last.op \in Edits /\ ~last.ok
    /\ last.why \in {"no note", "no item", "no new text", "unknown action",
                     "invalid", "nothing", "no content", "no entry"}

\* the options of an unlimited downward search that stays in the repository
WholeRepository ==
    [down |-> Depth(-1), up |-> Absent,
     no_git_bound_down |-> FALSE, no_git_bound_up |-> FALSE]

\* C27: find_threads(root) returns the record paths that
\* find_threads_with_options returns from the root with unlimited
\* downward depth, no upward search and the boundary flag unset, and the
\* one fails exactly when the other does
C27_SameEnumeration ==
    /\ found.state = "all" =>
          /\ ~FindRaises(Root, Root, WholeRepository)
          /\ Range(found.list) = Range(find_threads_with_options(Root, Root, WholeRepository))
    /\ (found.state = "done" /\ start = Root /\ options = WholeRepository) =>
          /\ ~CollectRaises(Root)
          /\ Range(found.list) = Range(find_threads(Root))
    /\ (found.state = "failed" /\ start = Root /\ options = WholeRepository) =>
          CollectRaises(Root)

\* find_threads ran on a tree with a nested repository and an unreadable
\* directory and returned records of subdirectories
C27_Witness ==
    /\ found.state = "all"
    /\ gitDirs # {Root}
    /\ noRead # {}
    /\ \E f \in Range(found.list) : Len(f.dir) > Len(Root)
    /\ Range(found.list) = Range(find_threads_with_options(Root, Root, WholeRepository))

\* C29: a record that cmd_new created and no command removed is what
\* find_thread_by_ref returns for its id, at the place cmd_move left it
C29_CreatedIsFound ==
    \A f \in DOMAIN born :
        /\ FoundFor(born[f].id).kind = "found"
        /\ AsFile(FoundFor(born[f].id).path) = f

\* the directories that infer_scope resolves a destination to
Destinations ==
    {Parent(infer_scope(arg, Root, Root).threads_dir) :
        arg \in {a \in NewPaths : infer_scope(a, Root, Root).ok}}

\* C30: a cmd_move that fails leaves every record file as it was; one that
\* succeeds put the record, with its file name and text, at a resolved
\* destination where no file of that name was, took it from the source,
\* and left every other record file as it was
C30_MoveKeepsRecords ==
    [][last'.op = "move" =>
          IF ~last'.ok
          THEN store' = store /\ files' = files
          ELSE \E src_file \in DOMAIN files :
                  LET dest_file == last'.file
                  IN  /\ dest_file.name = src_file.name
                      /\ dest_file.dir \in Destinations
                      /\ dest_file \notin DOMAIN files
                      /\ DOMAIN store' = (DOMAIN store \ {src_file}) \cup {dest_file}
                      /\ DOMAIN files' = (DOMAIN files \ {src_file}) \cup {dest_file}
                      /\ store'[dest_file] = store[src_file]
                      /\ \A g \in DOMAIN store \ {src_file} :
                            store'[g] = store[g] /\ files'[g] = files[g]]_vars

\* a record was moved while another record lay in the workspace
C30_Witness ==
    /\ last.op = "move" /\ last.ok
    /\ Cardinality(DOMAIN store) >= 2
    /\ last.file \in DOMAIN store
    /\ last.file.dir # Root

====
